---- MODULE Spec2Model ----
(***************************************************************************)
(* A model of the StudiePlus scraper (GWT-RPC wire parser, stack reader,   *)
(* marker scanners, domain joiner,                                         *)
(* assignment listing, TTL cache) and of the voice assistant's tool-call   *)
(* dispatch.  Every subsystem has its own variables, its own initial       *)
(* predicate and its own specification; a subsystem's specification leaves *)
(* the other subsystems' variables at their idle values.                   *)
(*                                                                         *)
(* Python values are modelled as follows.                                  *)
(*   str            a sequence of one-character strings                    *)
(*   Optional[str]  a str, or NoneT                                        *)
(*   datetime       <<year, month, day, hour, minute>>; None is <<>>       *)
(*   list           a sequence                                             *)
(***************************************************************************)
EXTENDS Integers, Sequences, FiniteSets, TLC

VARIABLES
    \* ---- domain joiner (gwt_deserializer.parse_lessons_direct, parse_schedule)
    jNotesIn,      \* outcome of the SkemaNote2 reader at each note marker position
    jLessonsIn,    \* outcome of the SkemaBegivenhed reader at each lesson marker position
    jLessons,      \* list returned by the last parse_schedule_response call
    jSchedule,     \* result of the last parse_schedule call
    jpc,           \* which operation ran last
    dOpgaverIn,    \* outcome of the OpgaveElev reader at each marker position
    dAssignments,  \* list returned by the last parse_assignments_direct call
    \* ---- assignments (parse_assignments, get_homework, get_assignment_details)
    aRoot,         \* what _read_object returns for the root of the response
    aArgs,         \* the arguments of the last get_assignments_filtered call
    aListing,      \* its result
    aRow,          \* the row_index of the last get_assignment_details call
    aDetail,       \* its result
    apc,           \* which operation ran last
    \* ---- SimpleCache
    cCache,        \* self._cache
    cNow,          \* datetime.now(), in seconds
    cOp,           \* the last call on the cache and its result
    cLastSet,      \* per key, what the last set stored and when (history)
    cRemoved,      \* per key, whether its entry was deleted since (history)
    \* ---- _handle_tool_call
    tCalls,        \* tool_call.function_calls
    tBridge,       \* the registered handler and the bridge's MCP sessions
    tResults,      \* results
    tResponses,    \* function_responses
    tNext,         \* the position of the loop in tCalls
    tSent,         \* what session.send was given: <<>> or <<function_responses>>
    tReturn,       \* what _handle_tool_call returned
    tpc,           \* "loop", "returned" or "raised"
    \* ---- GWTDeserializer construction
    wRaw,          \* the response text
    wOut,          \* the instance (strings, data, pos) or the exception
    \* ---- the stack reader (_pop, _read_string, _read_object)
    sData,         \* self.data
    sStrings,      \* self.strings
    sPos,          \* self.pos
    sObjects,      \* self.objects
    sLog,          \* the _read_object calls of the last operation (history)
    sOp,           \* the last operation, the state it started from, its result
    \* ---- _extract_lessons: duplicates, order, flags
    xBlocks,       \* the lesson built from each time block, in the order of the blocks
    xLessons,      \* the list _extract_lessons returned
    xpc,           \* "blocks" or "returned"
    \* ---- the cached domain API (get_lesson_detail, get_all_assignments)
    pCache,        \* _cache._cache
    pNow,          \* datetime.now(), in seconds
    pCall,         \* the last call: its key, whether it fetched, what the fetch gave, its result
    \* ---- StudiePlusRequestsScraper: login and the GWT-RPC operations
    nLoggedIn,     \* self.logged_in
    nRequests,     \* the requests the last operation sent through self.session, in order
    nOp,           \* the last operation: what the servers answered, what it returned
    \* ---- PhoneAudioBridge: one phone session
    bpc,           \* where run() is: start, waiting (in _start_gemini_session), receiving, ended
    bWaiter,       \* who called _start_gemini_session: run or set_mode
    bMode,         \* self._response_mode
    bConnected,    \* self._gemini_connected is set
    bTask,         \* self._gemini_task: none, connecting, connected, failed, cancelled
    bSent          \* the JSON messages sent to the phone, with the state of the event at the send

joinVars == <<jNotesIn, jLessonsIn, jLessons, jSchedule, jpc, dOpgaverIn, dAssignments>>
assignVars == <<aRoot, aArgs, aListing, aRow, aDetail, apc>>
cacheVars == <<cCache, cNow, cOp, cLastSet, cRemoved>>
toolVars == <<tCalls, tBridge, tResults, tResponses, tNext, tSent, tReturn, tpc>>
wireVars == <<wRaw, wOut>>
stackVars == <<sData, sStrings, sPos, sObjects, sLog, sOp>>
extractVars == <<xBlocks, xLessons, xpc>>
apiVars == <<pCache, pNow, pCall>>
loginVars == <<nLoggedIn, nRequests, nOp>>
bridgeVars == <<bpc, bWaiter, bMode, bConnected, bTask, bSent>>

vars == <<joinVars, assignVars, cacheVars, toolVars, wireVars, stackVars, extractVars, apiVars, loginVars, bridgeVars>>

\* What the operations of one subsystem leave alone.
joinFrame == <<assignVars, cacheVars, toolVars, wireVars, stackVars, extractVars, apiVars, loginVars, bridgeVars>>
assignFrame == <<joinVars, cacheVars, toolVars, wireVars, stackVars, extractVars, apiVars, loginVars, bridgeVars>>
cacheFrame == <<joinVars, assignVars, toolVars, wireVars, stackVars, extractVars, apiVars, loginVars, bridgeVars>>
toolFrame == <<joinVars, assignVars, cacheVars, wireVars, stackVars, extractVars, apiVars, loginVars, bridgeVars>>
wireFrame == <<joinVars, assignVars, cacheVars, toolVars, stackVars, extractVars, apiVars, loginVars, bridgeVars>>
stackFrame == <<joinVars, assignVars, cacheVars, toolVars, wireVars, extractVars, apiVars, loginVars, bridgeVars>>
extractFrame == <<joinVars, assignVars, cacheVars, toolVars, wireVars, stackVars, apiVars, loginVars, bridgeVars>>
apiFrame == <<joinVars, assignVars, cacheVars, toolVars, wireVars, stackVars, extractVars, loginVars, bridgeVars>>
loginFrame == <<joinVars, assignVars, cacheVars, toolVars, wireVars, stackVars, extractVars, apiVars, bridgeVars>>
bridgeFrame == <<joinVars, assignVars, cacheVars, toolVars, wireVars, stackVars, extractVars, apiVars, loginVars>>

(***************************************************************************)
(* Python strings and truthiness                                           *)
(***************************************************************************)

\* None where an Optional[str] is expected.
NoneT == <<"<None>">>

\* None where an Optional[datetime] is expected.
NoneDT == <<>>

\* bool(x) of an Optional[str]: None and "" are falsy.
Truthy(s) == s # NoneT /\ s # <<>>

\* str(x) of an Optional[str]: str(None) is the text "None".
Str(s) == IF s = NoneT THEN <<"N", "o", "n", "e">> ELSE s

\* s[:n]
Slice(s, n) == SubSeq(s, 1, IF Len(s) < n THEN Len(s) ELSE n)

\* needle in s (substring test of two strings)
Contains(s, needle) ==
    \E i \in 1..(Len(s) - Len(needle) + 1) :
        SubSeq(s, i, i + Len(needle) - 1) = needle

Lektier == <<"L", "e", "k", "t", "i", "e", "r">>

\* Lexicographic order of two integer tuples of the same length: the order of
\* the zero-padded strings strftime produces.
RECURSIVE LexLess(_, _)
LexLess(a, b) ==
    IF a = <<>> \/ b = <<>> THEN FALSE
    ELSE IF Head(a) # Head(b) THEN Head(a) < Head(b)
    ELSE LexLess(Tail(a), Tail(b))

(***************************************************************************)
(* Domain joiner: GWTDeserializer._parse_all_notes, parse_lessons_direct,  *)
(* parse_schedule_response and StudiePlusRequestsScraper.parse_schedule.   *)
(* The class readers' results at the marker positions are the inputs: a    *)
(* reader either raises or returns its object.                             *)
(***************************************************************************)

\* Bounds of the joiner's inputs.
MaxNotes == 2
MaxLessons == 2

\* str(html_text)[:200]
HtmlSliceLen == 200

\* A SkemaNote2 as _deserialize_skema_note returns it.
SkemaNote2(cls, plain, html, date) ==
    [class_name |-> cls, plain_text |-> plain, html |-> html, date |-> date]

\* A SkemaLesson as _deserialize_skema_begivenhed returns it: the flags and
\* the homework text have their dataclass defaults, note is the bemerkning.
SkemaLesson(id, subject, cls, teachers, rooms, start, end, note) ==
    [lesson_id |-> id, subject |-> subject, class_name |-> cls,
     teachers |-> teachers, rooms |-> rooms,
     start_time |-> start, end_time |-> end,
     note |-> note, homework |-> <<>>,
     has_homework |-> FALSE, has_note |-> FALSE]

Returned(v) == [raised |-> FALSE, val |-> v]
Raised(v) == [raised |-> TRUE, val |-> v]

\* _parse_all_notes: the notes whose reader completed and that carry a plain
\* text or an html text, in marker order.
_parse_all_notes(noteOuts) ==
    LET kept == SelectSeq(noteOuts,
                    LAMBDA o : ~o.raised
                               /\ (Truthy(o.val.plain_text) \/ Truthy(o.val.html)))
    IN [i \in 1..Len(kept) |-> kept[i].val]

\* strftime('%Y-%m-%d') of a datetime, str(x)[:10] of anything else.
date_key(d) == IF Len(d) = 5 THEN SubSeq(d, 1, 3) ELSE d

\* notes_by_date_class keyed by the date alone.
notes_by_date_only(notes, key) ==
    SelectSeq(notes, LAMBDA n : n.date # NoneDT /\ date_key(n.date) = key[1])

\* The multimap notes_by_date_class, read at one key: the notes that have a
\* date and whose (date, class_name) is the key, in list order.
notes_by_date_class(notes, key) ==
    SelectSeq(notes,
        LAMBDA n : n.date # NoneDT /\ <<date_key(n.date), n.class_name>> = key)

\* What one matching note does to the lesson (lines 1633-1643); the caller
\* has checked that plain_text is a string.
attach_note(lesson, note) ==
    LET plain_text == note.plain_text
        html_text == note.html
    IN IF Contains(plain_text, Lektier) \/ Contains(Str(html_text), Lektier)
       THEN [lesson EXCEPT !.has_homework = TRUE, !.homework = plain_text]
       ELSE [lesson EXCEPT
                !.has_note = TRUE,
                !.note = IF ~Truthy(lesson.note) \/ lesson.note = lesson.subject
                         THEN (IF Truthy(plain_text) THEN plain_text
                               ELSE Slice(Str(html_text), HtmlSliceLen))
                         ELSE lesson.note]

\* The loop over the notes of the lesson's key.  'Lektier' in plain_text
\* raises TypeError when plain_text is None.
RECURSIVE attach_notes(_, _)
attach_notes(lesson, ns) ==
    IF ns = <<>> THEN Returned(lesson)
    ELSE IF Head(ns).plain_text = NoneT THEN Raised(lesson)
    ELSE attach_notes(attach_note(lesson, Head(ns)), Tail(ns))

\* join_position without the test on subject, rooms and teachers.
join_position_unfiltered(out, notes) ==
    IF out.raised THEN <<>>
    ELSE LET lesson == out.val IN
         IF lesson.start_time = NoneDT THEN <<lesson>>
         ELSE LET key == <<date_key(lesson.start_time), lesson.class_name>>
                  res == attach_notes(lesson, notes_by_date_class(notes, key))
              IN IF res.raised THEN <<>> ELSE <<res.val>>

\* The body of the loop over the lesson marker positions: what one position
\* appends to the result (a list of zero or one lesson).
join_position(out, notes) ==
    IF out.raised THEN <<>>
    ELSE LET lesson == out.val IN
         IF ~(Truthy(lesson.subject) \/ lesson.rooms # <<>> \/ lesson.teachers # <<>>)
         THEN <<>>
         ELSE IF lesson.start_time = NoneDT THEN <<lesson>>
         ELSE LET lesson_class == IF Truthy(lesson.class_name)
                                  THEN lesson.class_name ELSE <<>>
                  key == <<date_key(lesson.start_time), lesson_class>>
                  res == attach_notes(lesson, notes_by_date_class(notes, key))
              IN IF res.raised THEN <<>> ELSE <<res.val>>

\* A loop over the marker positions that ends at the first position whose
\* reader raises.
RECURSIVE join_positions_until_raise(_, _)
join_positions_until_raise(lessonOuts, notes) ==
    IF lessonOuts = <<>> \/ Head(lessonOuts).raised THEN <<>>
    ELSE join_position(Head(lessonOuts), notes)
         \o join_positions_until_raise(Tail(lessonOuts), notes)

\* The loop over the lesson marker positions.
RECURSIVE join_positions(_, _)
join_positions(lessonOuts, notes) ==
    IF lessonOuts = <<>> THEN <<>>
    ELSE join_position(Head(lessonOuts), notes)
         \o join_positions(Tail(lessonOuts), notes)

parse_lessons_direct(noteOuts, lessonOuts) ==
    join_positions(lessonOuts, _parse_all_notes(noteOuts))

\* ", ".join(xs)
RECURSIVE JoinComma(_)
JoinComma(xs) ==
    IF xs = <<>> THEN <<>>
    ELSE IF Len(xs) = 1 THEN Head(xs)
    ELSE Head(xs) \o <<",", " ">> \o JoinComma(Tail(xs))

\* The dict parse_schedule builds of one SkemaLesson that has a start_time
\* and an end_time.
schedule_dict(gl) ==
    [lesson_id |-> gl.lesson_id,
     date |-> date_key(gl.start_time),
     time |-> SubSeq(gl.start_time, 4, 5) \o SubSeq(gl.end_time, 4, 5),
     subject |-> gl.subject,
     teacher |-> JoinComma(gl.teachers),
     room |-> JoinComma(gl.rooms),
     has_homework |-> gl.has_homework,
     has_note |-> gl.has_note,
     homework |-> gl.homework,
     note |-> gl.note]

sort_key(l) == l.date \o l.time

\* list.sort is stable: x, later in the list than everything in s, goes
\* behind the elements whose key is not greater.
RECURSIVE sort_insert(_, _)
sort_insert(x, s) ==
    IF s = <<>> THEN <<x>>
    ELSE IF LexLess(sort_key(x), sort_key(Head(s))) THEN <<x>> \o s
    ELSE <<Head(s)>> \o sort_insert(x, Tail(s))

RECURSIVE sort_lessons(_)
sort_lessons(ls) ==
    IF ls = <<>> THEN <<>>
    ELSE sort_insert(ls[Len(ls)], sort_lessons(SubSeq(ls, 1, Len(ls) - 1)))

\* parse_schedule from the decoded lessons on: lessons without a start_time
\* are skipped, gl.end_time.strftime raises when end_time is None, the
\* dicts are sorted by (date, time).
parse_schedule(gwt_lessons) ==
    LET kept == SelectSeq(gwt_lessons, LAMBDA gl : gl.start_time # NoneDT)
    IN IF \E i \in 1..Len(kept) : kept[i].end_time = NoneDT
       THEN [raised |-> TRUE, lessons |-> <<>>]
       ELSE [raised |-> FALSE,
             lessons |-> sort_lessons([i \in 1..Len(kept) |-> schedule_dict(kept[i])])]


(***************************************************************************)
(* The joiner's inputs.                                                    *)
(***************************************************************************)

ClassQ == <<"q", "r", "2", "4">>
ClassR == <<"x", "r", "2", "4">>
Mat == <<"M", "a", "t">>
Dan == <<"D", "a", "n">>
TxtHomework == Lektier \o <<":", " ", "k", "a", "p", "3">>
TxtRemember == <<"h", "u", "s", "k">>
HtmlHomework == <<"<", "b", ">">> \o Lektier
HtmlPlain == <<"<", "p", ">">>

\* 2025-11-10 and 2025-11-11 at hour:minute
Day1(h, mi) == <<2025, 11, 10, h, mi>>
Day2(h, mi) == <<2025, 11, 11, h, mi>>
NoteValues ==
    { SkemaNote2(ClassQ, TxtHomework, HtmlPlain, Day1(0, 0)),    \* homework
      SkemaNote2(ClassQ, <<>>, HtmlHomework, Day1(0, 0)),        \* 'Lektier' in the html only
      SkemaNote2(ClassQ, TxtRemember, NoneT, Day1(12, 0)),       \* a plain note
      SkemaNote2(ClassQ, <<>>, HtmlPlain, Day1(0, 0)),           \* a note with html only
      SkemaNote2(ClassQ, NoneT, HtmlPlain, Day1(0, 0)),          \* plain text None
      SkemaNote2(ClassQ, <<>>, <<>>, Day1(0, 0)),                \* no text at all
      SkemaNote2(ClassR, TxtHomework, HtmlPlain, Day1(0, 0)),    \* another class
      SkemaNote2(ClassQ, TxtHomework, HtmlPlain, Day2(0, 0)),    \* another date
      SkemaNote2(ClassQ, TxtHomework, HtmlPlain, NoneDT) }       \* no date

NoteOutcomes ==
    {Returned(n) : n \in NoteValues}
    \cup {Raised(SkemaNote2(NoneT, NoneT, NoneT, NoneDT))}

LessonValues ==
    { SkemaLesson(1, Mat, ClassQ, <<<<"j", "d">>>>, <<<<"M", "1">>>>,
                  Day1(8, 15), Day1(9, 15), <<>>),
      SkemaLesson(2, Mat, ClassQ, <<<<"j", "d">>>>, <<>>,
                  Day1(9, 15), Day1(10, 0), Mat),
      SkemaLesson(3, <<>>, <<>>, <<>>, <<<<"M", "1">>, <<"M", "2">>>>,
                  NoneDT, NoneDT, <<>>),                         \* no start_time
      SkemaLesson(4, <<>>, ClassQ, <<>>, <<>>,
                  Day1(8, 15), Day1(9, 15), <<>>),               \* no subject, room, teacher
      SkemaLesson(5, Dan, ClassQ, <<>>, <<>>,
                  Day2(8, 15), NoneDT, TxtRemember) }            \* no end_time

LessonOutcomes ==
    {Returned(l) : l \in LessonValues}
    \cup {Raised(SkemaLesson(0, <<>>, <<>>, <<>>, <<>>, NoneDT, NoneDT, <<>>))}

SeqsUpTo(S, n) == UNION {[1..k -> S] : k \in 0..n}

NoResult == [raised |-> FALSE, lessons |-> <<>>]

JoinInit ==
    /\ jNotesIn \in SeqsUpTo(NoteOutcomes, MaxNotes)
    /\ jLessonsIn \in SeqsUpTo(LessonOutcomes, MaxLessons)
    /\ jLessons = <<>>
    /\ jSchedule = NoResult
    /\ jpc = "constructed"
    /\ dOpgaverIn = <<>>
    /\ dAssignments = <<>>

\* parse_schedule_response(response): a deserializer of the response, then
\* parse_lessons_direct.
ParseScheduleResponse ==
    /\ jLessons' = parse_lessons_direct(jNotesIn, jLessonsIn)
    /\ jpc' = "parse_schedule_response"
    /\ UNCHANGED <<jNotesIn, jLessonsIn, jSchedule, dOpgaverIn, dAssignments>>

\* StudiePlusRequestsScraper.parse_schedule: parse_schedule_response, the
\* conversion to dicts and the sort.
ParseSchedule ==
    /\ jLessons' = parse_lessons_direct(jNotesIn, jLessonsIn)
    /\ jSchedule' = parse_schedule(jLessons')
    /\ jpc' = "parse_schedule"
    /\ UNCHANGED <<jNotesIn, jLessonsIn, dOpgaverIn, dAssignments>>

(***************************************************************************)
(* Assignments: GWTDeserializer.parse_assignments, the scraper's           *)
(* get_homework and get_assignment_details, api.get_assignments_filtered.  *)
(***************************************************************************)

\* Bound: the number of elements of the root ArrayList.
MaxAfl == 2

\* str(i) of an integer i >= 0
Digit == <<"0", "1", "2", "3", "4", "5", "6", "7", "8", "9">>
RECURSIVE IntToStr(_)
IntToStr(i) ==
    IF i < 10 THEN <<Digit[i + 1]>>
    ELSE IntToStr(i \div 10) \o <<Digit[(i % 10) + 1]>>

IsDigits(s) ==
    s # <<>> /\ \A k \in 1..Len(s) : \E d \in 1..10 : Digit[d] = s[k]

\* int(s) of a string of decimal digits (int raises ValueError otherwise)
RECURSIVE StrToInt(_)
StrToInt(s) ==
    IF s = <<>> THEN 0
    ELSE 10 * StrToInt(SubSeq(s, 1, Len(s) - 1))
         + ((CHOOSE d \in 1..10 : Digit[d] = s[Len(s)]) - 1)

\* str.lower(), on the letters the model uses
LowerChar(c) ==
    CASE c = "M" -> "m"
      [] c = "D" -> "d"
      [] c = "A" -> "a"
      [] OTHER -> c
Lower(s) == [k \in 1..Len(s) |-> LowerChar(s[k])]

\* strftime('%d.%m.%Y %H:%M') and strptime of it
FormatDeadline(dt) == <<dt[3], dt[2], dt[1], dt[4], dt[5]>>
ParseDeadline(str) == <<str[3], str[2], str[1], str[4], str[5]>>

\* datetime.now() and now + timedelta(days=n), within one month
Now == <<2025, 11, 10, 8, 0>>
AddDays(dt, n) == [dt EXCEPT ![3] = @ + n]
LexLeq(a, b) == a = b \/ LexLess(a, b)

\* _deserialize_opgave_elev's dict
OpgaveElev(subject, title, deadline) ==
    [subject |-> subject, title |-> title, deadline |-> deadline]

\* _deserialize_aflevering's dict.  status is <<>> (no enum object) or
\* <<ordinal>>; bedoemmelse is <<>> (no evaluation record) or <<date>>;
\* opgave_elev is <<>> (no OpgaveElev dict) or <<OpgaveElev>>.
Aflevering(submission_date, bedoemmelse, container_id, opgave_elev, status) ==
    [is_dict |-> TRUE,
     opgave_elev |-> opgave_elev,
     submission_date |-> submission_date,
     submitted |-> submission_date # NoneDT,
     status |-> status,
     bedoemmelse |-> bedoemmelse,
     container_id |-> container_id]

\* An element of the root list that is no dict (None).
NotADict ==
    [is_dict |-> FALSE, opgave_elev |-> <<>>, submission_date |-> NoneDT,
     submitted |-> FALSE, status |-> <<>>, bedoemmelse |-> <<>>, container_id |-> 0]

\* The test of only_open in parse_assignments without the evaluation date.
skipped_by_only_open_no_evaluation(afl) ==
    LET status_ordinal == afl.status
        is_open_status == status_ordinal = <<0>> \/ status_ordinal = <<>>
    IN afl.submitted \/ ~is_open_status

\* The test of only_open in parse_assignments (lines 1153-1170).
skipped_by_only_open(afl) ==
    LET status_ordinal == afl.status
        is_open_status == status_ordinal = <<0>> \/ status_ordinal = <<>>
        has_evaluation == /\ afl.bedoemmelse # <<>>
                          /\ afl.bedoemmelse[1] # NoneDT
    IN afl.submitted \/ ~is_open_status \/ has_evaluation

\* What one element of the root list appends to the result of
\* parse_assignments (a list of zero or one dict).
assignment_of(afl, only_open) ==
    IF ~afl.is_dict THEN <<>>
    ELSE IF only_open /\ skipped_by_only_open(afl) THEN <<>>
    ELSE IF afl.opgave_elev = <<>> THEN <<>>
    ELSE LET opgave == afl.opgave_elev[1] IN
         IF ~Truthy(opgave.subject) /\ ~Truthy(opgave.title) THEN <<>>
         ELSE << [container_id |-> afl.container_id,
                  subject |-> opgave.subject,
                  title |-> opgave.title,
                  deadline |-> IF opgave.deadline # NoneDT
                               THEN FormatDeadline(opgave.deadline) ELSE <<>>,
                  submitted |-> afl.submitted,
                  row_index |-> <<>>] >>

RECURSIVE assignments_of(_, _)
assignments_of(items, only_open) ==
    IF items = <<>> THEN <<>>
    ELSE assignment_of(Head(items), only_open)
         \o assignments_of(Tail(items), only_open)

\* parse_assignments: [] when reading the root raised or gave no list.
parse_assignments(root, only_open) ==
    IF root.kind # "list" THEN <<>>
    ELSE assignments_of(root.items, only_open)

\* get_homework: parse_assignments, then row_index = str(i) by position.
get_homework(root, only_open) ==
    LET assignments == parse_assignments(root, only_open)
    IN [i \in 1..Len(assignments) |->
            [assignments[i] EXCEPT !.row_index = IntToStr(i - 1)]]

\* get_assignment_details of the scraper: the row of the unfiltered list.
get_assignment_details(root, row_index) ==
    LET assignments == get_homework(root, FALSE) IN
    IF ~IsDigits(row_index) THEN [error |-> TRUE, assignment |-> <<>>]
    ELSE LET idx == StrToInt(row_index) IN
         IF ~(0 <= idx /\ idx < Len(assignments))
         THEN [error |-> TRUE, assignment |-> <<>>]
         ELSE LET assignment == assignments[idx + 1] IN
              [error |-> FALSE,
               assignment |-> << [assignment_title |-> assignment.title,
                                  subject |-> assignment.subject,
                                  submission_status |->
                                      IF assignment.submitted THEN "Afleveret"
                                      ELSE "Ikke afleveret",
                                  deadline |-> assignment.deadline,
                                  row_index |-> row_index,
                                  container_id |-> assignment.container_id] >>]

\* The days_ahead filter: assignments with a deadline not after the cutoff.
within_days(all_assignments, days_ahead) ==
    SelectSeq(all_assignments,
        LAMBDA a : /\ a.deadline # <<>>
                   /\ LexLeq(ParseDeadline(a.deadline), AddDays(Now, days_ahead)))

\* get_assignments_filtered.  days_ahead is <<>> (None) or <<n>>, subject is
\* NoneT or a string; a.get('subject', '').lower() raises when the decoded
\* subject is None.
get_assignments_filtered(root, include_submitted, days_ahead, subject) ==
    LET all_assignments == get_homework(root, ~include_submitted)
        filtered == IF days_ahead # <<>>
                    THEN within_days(all_assignments, days_ahead[1])
                    ELSE all_assignments
    IN IF ~Truthy(subject) THEN [raised |-> FALSE, assignments |-> filtered]
       ELSE IF \E i \in 1..Len(filtered) : filtered[i].subject = NoneT
       THEN [raised |-> TRUE, assignments |-> <<>>]
       ELSE [raised |-> FALSE,
             assignments |-> SelectSeq(filtered,
                 LAMBDA a : Contains(Lower(a.subject), Lower(subject)))]

\* ---- inputs
TitleA == <<"A", "1">>
TitleB == <<"A", "2">>
TitleC == <<"A", "3">>

AfleveringValues ==
    { \* A: not submitted, status AABEN, evaluation record without a date
      Aflevering(NoneDT, <<NoneDT>>, 11, <<OpgaveElev(Mat, TitleA, Day1(23, 59))>>, <<0>>),
      \* B: submitted, status RETTET
      Aflevering(Day1(7, 0), <<>>, 12, <<OpgaveElev(Dan, TitleB, Day1(23, 59))>>, <<2>>),
      \* C: not submitted, status AABEN, evaluated
      Aflevering(NoneDT, <<Day1(9, 0)>>, 13, <<OpgaveElev(Mat, TitleC, Day2(23, 59))>>, <<0>>),
      \* not submitted, no status, no evaluation record, deadline far ahead
      Aflevering(NoneDT, <<>>, 14, <<OpgaveElev(Dan, TitleA, <<2025, 11, 20, 12, 0>>)>>, <<>>),
      \* not submitted, status LAAST
      Aflevering(NoneDT, <<>>, 15, <<OpgaveElev(Mat, TitleB, NoneDT)>>, <<1>>),
      \* open, the OpgaveElev did not decode to a dict
      Aflevering(NoneDT, <<>>, 16, <<>>, <<0>>),
      \* open, an OpgaveElev without subject and title
      Aflevering(NoneDT, <<>>, 17, <<OpgaveElev(NoneT, <<>>, NoneDT)>>, <<0>>),
      \* open, the subject decoded to None
      Aflevering(NoneDT, <<>>, 18, <<OpgaveElev(NoneT, TitleC, Day1(23, 59))>>, <<0>>),
      NotADict }

RootValues ==
    {[kind |-> "list", items |-> items] : items \in SeqsUpTo(AfleveringValues, MaxAfl)}
    \cup {[kind |-> "raised", items |-> <<>>], [kind |-> "other", items |-> <<>>]}

RowIndexValues == {IntToStr(i) : i \in 0..MaxAfl} \cup {<<"x">>}

NoArgs == [include_submitted |-> FALSE, days_ahead |-> <<>>, subject |-> NoneT]
NoListing == [raised |-> FALSE, assignments |-> <<>>]
NoDetail == [error |-> FALSE, assignment |-> <<>>]

AssignInit ==
    /\ aRoot \in RootValues
    /\ aArgs = NoArgs
    /\ aListing = NoListing
    /\ aRow = <<>>
    /\ aDetail = NoDetail
    /\ apc = "start"

\* The MCP tool get_assignments -> api.get_assignments_filtered.
GetAssignments ==
    \E include_submitted \in BOOLEAN, days_ahead \in {<<>>, <<1>>},
       subject \in {NoneT, <<"m", "a", "t">>} :
        /\ aArgs' = [include_submitted |-> include_submitted,
                     days_ahead |-> days_ahead, subject |-> subject]
        /\ aListing' = get_assignments_filtered(aRoot, include_submitted,
                                                days_ahead, subject)
        /\ apc' = "listed"
        /\ UNCHANGED <<aRoot, aRow, aDetail>>

\* The MCP tool get_assignment_details -> api.get_assignment_detail ->
\* scraper.get_assignment_details.
GetAssignmentDetails ==
    \E row_index \in RowIndexValues :
        /\ aRow' = row_index
        /\ aDetail' = get_assignment_details(aRoot, row_index)
        /\ apc' = "detailed"
        /\ UNCHANGED <<aRoot, aArgs, aListing>>

AssignNext ==
    \/ GetAssignments /\ UNCHANGED assignFrame
    \/ GetAssignmentDetails /\ UNCHANGED assignFrame

(***************************************************************************)
(* SimpleCache (api.py): a dict from key to {data, timestamp}, read with a *)
(* time to live.  Time is datetime.now() in whole seconds.                 *)
(***************************************************************************)

\* Bound: the last second of the clock.
MaxTime == 3

KeyOpen == <<"a", "_", "o">>
KeyAll == <<"a", "_", "a">>
CacheKeys == {KeyOpen, KeyAll}
CacheData == {"v1", "v2"}
TtlValues == {1, 2}
Patterns == {<<"a", "_">>, <<"_", "o">>}

\* self._cache: Missing for a key not in the dict, else <<entry>>.
Missing == <<>>
Entry(data, timestamp) == <<[data |-> data, timestamp |-> timestamp]>>
EmptyCache == [k \in CacheKeys |-> Missing]

\* The result of a get: <<>> is None, <<data>> a hit.
Miss == <<>>
Hit(data) == <<data>>

\* get with the test age >= ttl_seconds
cache_get_at_ttl(cache, key, ttl_seconds, now) ==
    IF cache[key] = Missing THEN [result |-> Miss, cache |-> cache]
    ELSE LET entry == cache[key][1]
             age == now - entry.timestamp
         IN IF age >= ttl_seconds
            THEN [result |-> Miss, cache |-> [cache EXCEPT ![key] = Missing]]
            ELSE [result |-> Hit(entry.data), cache |-> cache]

\* SimpleCache.get: the result and the dict it leaves.
cache_get(cache, key, ttl_seconds, now) ==
    IF cache[key] = Missing THEN [result |-> Miss, cache |-> cache]
    ELSE LET entry == cache[key][1]
             age == now - entry.timestamp
         IN IF age > ttl_seconds
            THEN [result |-> Miss, cache |-> [cache EXCEPT ![key] = Missing]]
            ELSE [result |-> Hit(entry.data), cache |-> cache]

\* SimpleCache.set
cache_set(cache, key, data, now) ==
    [cache EXCEPT ![key] = Entry(data, now)]

\* SimpleCache.clear
cache_clear(cache) == [k \in CacheKeys |-> Missing]

\* SimpleCache.invalidate
cache_invalidate(cache, pattern) ==
    LET keys_to_remove == {k \in CacheKeys : cache[k] # Missing /\ Contains(k, pattern)}
    IN [k \in CacheKeys |-> IF k \in keys_to_remove THEN Missing ELSE cache[k]]

\* The last call: what was asked, when, and what it returned.
Call(op, key, arg, at, result) ==
    [op |-> op, key |-> key, arg |-> arg, at |-> at, result |-> result]

NoCall == Call("none", <<>>, 0, 0, Miss)

CacheInit ==
    /\ cCache = EmptyCache
    /\ cNow = 0
    /\ cOp = NoCall
    /\ cLastSet = EmptyCache
    /\ cRemoved = [k \in CacheKeys |-> FALSE]

CacheSet ==
    \E key \in CacheKeys, data \in CacheData :
        /\ cCache' = cache_set(cCache, key, data, cNow)
        /\ cOp' = Call("set", key, 0, cNow, Miss)
        /\ cLastSet' = [cLastSet EXCEPT ![key] = Entry(data, cNow)]
        /\ cRemoved' = [cRemoved EXCEPT ![key] = FALSE]
        /\ UNCHANGED cNow

\* History: key's entry, if it was set, is recorded as deleted.
Deleted(removed, keys) ==
    [k \in CacheKeys |-> removed[k] \/ (k \in keys /\ cLastSet[k] # Missing)]

\* History: a get on key with this ttl comes later than ttl after the set.
Overdue(key, ttl_seconds) ==
    /\ cLastSet[key] # Missing
    /\ cNow - cLastSet[key][1].timestamp > ttl_seconds

CacheGet ==
    \E key \in CacheKeys, ttl_seconds \in TtlValues :
        LET got == cache_get(cCache, key, ttl_seconds, cNow) IN
        /\ cCache' = got.cache
        /\ cOp' = Call("get", key, ttl_seconds, cNow, got.result)
        /\ cRemoved' = Deleted(cRemoved, {k \in {key} : Overdue(key, ttl_seconds)})
        /\ UNCHANGED <<cNow, cLastSet>>

CacheClear ==
    /\ cCache' = cache_clear(cCache)
    /\ cOp' = Call("clear", <<>>, 0, cNow, Miss)
    /\ cRemoved' = Deleted(cRemoved, CacheKeys)
    /\ UNCHANGED <<cNow, cLastSet>>

CacheInvalidate ==
    \E pattern \in Patterns :
        /\ cCache' = cache_invalidate(cCache, pattern)
        /\ cOp' = Call("invalidate", pattern, 0, cNow, Miss)
        /\ cRemoved' = Deleted(cRemoved, {k \in CacheKeys : Contains(k, pattern)})
        /\ UNCHANGED <<cNow, cLastSet>>

\* A second passes.
CacheTick ==
    /\ cNow < MaxTime
    /\ cNow' = cNow + 1
    /\ UNCHANGED <<cCache, cOp, cLastSet, cRemoved>>

CacheNext ==
    \/ CacheSet /\ UNCHANGED cacheFrame
    \/ CacheGet /\ UNCHANGED cacheFrame
    \/ CacheClear /\ UNCHANGED cacheFrame
    \/ CacheInvalidate /\ UNCHANGED cacheFrame
    \/ CacheTick /\ UNCHANGED cacheFrame

(***************************************************************************)
(* GWTDeserializer.parse_assignments_direct: the scan for OpgaveElev       *)
(* markers.  As in the joiner, the reader's result at each marker position *)
(* is the input: every position starts from self.pos = pos and an empty    *)
(* object cache, so the result at one position does not depend on what     *)
(* happened at another.                                                    *)
(***************************************************************************)

\* Bound of the scanner's input.
MaxOpgaver == 2

\* The dict appended for one OpgaveElev.
direct_dict(opgave) ==
    [subject |-> opgave.subject,
     title |-> opgave.title,
     deadline |-> IF opgave.deadline = NoneDT THEN <<>>
                  ELSE FormatDeadline(opgave.deadline)]

\* The body of the loop over the marker positions: what one position appends.
direct_position(out) ==
    IF out.raised THEN <<>>
    ELSE IF Truthy(out.val.subject) \/ Truthy(out.val.title)
         THEN <<direct_dict(out.val)>>
         ELSE <<>>

RECURSIVE direct_positions(_)
direct_positions(outs) ==
    IF outs = <<>> THEN <<>>
    ELSE direct_position(Head(outs)) \o direct_positions(Tail(outs))

\* Remove duplicates (same subject + title): the first of each key stays.
RECURSIVE unique(_, _)
unique(assignments, seen) ==
    IF assignments = <<>> THEN <<>>
    ELSE LET a == Head(assignments)
             key == <<a.subject, a.title>>
         IN IF key \in seen THEN unique(Tail(assignments), seen)
            ELSE <<a>> \o unique(Tail(assignments), seen \cup {key})

parse_assignments_direct(outs) == unique(direct_positions(outs), {})

OpgaveOutcomes ==
    { Returned(OpgaveElev(Mat, TitleA, Day1(23, 59))),
      Returned(OpgaveElev(Mat, TitleA, NoneDT)),       \* the same key again
      Returned(OpgaveElev(Dan, TitleA, Day2(23, 59))),
      Returned(OpgaveElev(NoneT, TitleB, NoneDT)),     \* no subject
      Returned(OpgaveElev(NoneT, NoneT, NoneDT)),      \* neither subject nor title
      Raised(OpgaveElev(NoneT, NoneT, NoneDT)) }

\* A deserializer of an assignments response: no lesson and no note marker.
DirectInit ==
    /\ jNotesIn = <<>>
    /\ jLessonsIn = <<>>
    /\ jLessons = <<>>
    /\ jSchedule = NoResult
    /\ jpc = "constructed"
    /\ dOpgaverIn \in SeqsUpTo(OpgaveOutcomes, MaxOpgaver)
    /\ dAssignments = <<>>

\* A deserializer of a schedule response or of an assignments response.
ScanInit == JoinInit \/ DirectInit

ParseAssignmentsDirect ==
    /\ dAssignments' = parse_assignments_direct(dOpgaverIn)
    /\ jpc' = "parse_assignments_direct"
    /\ UNCHANGED <<jNotesIn, jLessonsIn, jLessons, jSchedule, dOpgaverIn>>

JoinNext ==
    \/ ParseScheduleResponse /\ UNCHANGED joinFrame
    \/ ParseSchedule /\ UNCHANGED joinFrame
    \/ ParseAssignmentsDirect /\ UNCHANGED joinFrame
(***************************************************************************)
(* Tool calls: GeminiLiveClient._handle_tool_call (gemini_live.py) with    *)
(* MCPBridge.call_tool (websocket_server.py) as the registered handler.    *)
(***************************************************************************)

\* Bound: the number of function calls in one tool_call batch.
MaxCalls == 3

ToolSchedule == "get_schedule"
ToolAssignments == "get_assignments"
ToolUnknown == "get_grades"
ToolNames == {ToolSchedule, ToolAssignments, ToolUnknown}
CallIds == {"id1", "id2"}

\* A function call of the batch: fc.id and fc.name.
FunctionCall(id, name) == [id |-> id, name |-> name]

\* An MCP session: whether list_tools answers, the tools it lists, and the
\* listed tools whose call_tool raises.
Session(list_ok, tools, failing) ==
    [list_ok |-> list_ok, tools |-> tools, failing |-> failing]

\* str(x) of a result or of an exception
ToStr(x) == <<"str">> \o x

\* MCPBridge.call_tool: the first session that lists the tool runs it.
RECURSIVE call_tool(_, _)
call_tool(sessions, name) ==
    IF sessions = <<>> THEN Raised(<<"Tool ", name, " not found">>)
    ELSE LET session == Head(sessions) IN
         IF ~session.list_ok THEN Raised(<<"list_tools failed">>)
         ELSE IF name \in session.tools
         THEN IF name \in session.failing
              THEN Raised(<<"call_tool failed: ", name>>)
              ELSE Returned(<<"content of ", name>>)
         ELSE call_tool(Tail(sessions), name)

\* self._tool_handler(name, args): an AttributeError when register_tools
\* never ran.
tool_handler(bridge, name) ==
    IF ~bridge.registered THEN Raised(<<"no attribute _tool_handler">>)
    ELSE call_tool(bridge.sessions, name)

\* One iteration of the loop with an except branch that appends nothing.
handle_call_dropping(fc, bridge) ==
    LET name == fc.name
        call_id == fc.id
        outcome == tool_handler(bridge, name)
    IN IF ~outcome.raised
       THEN [results |-> << [name |-> name, success |-> TRUE,
                             result |-> outcome.val, error |-> <<>>] >>,
             function_responses |-> << [id |-> call_id, name |-> name,
                             response |-> [key |-> "result",
                                           text |-> ToStr(outcome.val)]] >>]
       ELSE [results |-> <<>>, function_responses |-> <<>>]

\* One iteration of the loop of _handle_tool_call: what the try or the
\* except branch appends to results and to function_responses.
handle_call(fc, bridge) ==
    LET name == fc.name
        call_id == fc.id
        outcome == tool_handler(bridge, name)
    IN IF ~outcome.raised
       THEN [results |-> << [name |-> name, success |-> TRUE,
                             result |-> outcome.val, error |-> <<>>] >>,
             function_responses |-> << [id |-> call_id, name |-> name,
                             response |-> [key |-> "result",
                                           text |-> ToStr(outcome.val)]] >>]
       ELSE [results |-> << [name |-> name, success |-> FALSE,
                             result |-> <<>>, error |-> ToStr(outcome.val)] >>,
             function_responses |-> << [id |-> call_id, name |-> name,
                             response |-> [key |-> "error",
                                           text |-> ToStr(outcome.val)]] >>]

\* ---- inputs
BridgeValues ==
    { [registered |-> TRUE,
       sessions |-> << Session(TRUE, {ToolSchedule, ToolAssignments}, {ToolAssignments}) >>],
      [registered |-> TRUE,
       sessions |-> << Session(TRUE, {ToolSchedule}, {}),
                       Session(TRUE, {ToolAssignments}, {}) >>],
      [registered |-> TRUE,
       sessions |-> << Session(TRUE, {ToolSchedule}, {}),
                       Session(FALSE, {ToolAssignments}, {}) >>],
      [registered |-> TRUE, sessions |-> <<>>],
      [registered |-> FALSE, sessions |-> <<>>] }

FunctionCallValues == {FunctionCall(id, name) : id \in CallIds, name \in ToolNames}

NotReturned == [type |-> "none", data |-> <<>>]

ToolInit ==
    /\ tCalls \in SeqsUpTo(FunctionCallValues, MaxCalls)
    /\ tBridge \in BridgeValues
    /\ tResults = <<>>
    /\ tResponses = <<>>
    /\ tNext = 1
    /\ tSent = <<>>
    /\ tReturn = NotReturned
    /\ tpc = "loop"

\* One iteration of the for loop.
ToolCallStep ==
    /\ tpc = "loop"
    /\ tNext <= Len(tCalls)
    /\ LET appended == handle_call(tCalls[tNext], tBridge) IN
        /\ tResults' = tResults \o appended.results
        /\ tResponses' = tResponses \o appended.function_responses
    /\ tNext' = tNext + 1
    /\ UNCHANGED <<tCalls, tBridge, tSent, tReturn, tpc>>

\* The loop is over: session.send of the tool response, then the return.
ToolSend ==
    /\ tpc = "loop"
    /\ tNext > Len(tCalls)
    /\ tSent' = <<tResponses>>
    /\ tReturn' = [type |-> "tool_calls", data |-> tResults]
    /\ tpc' = "returned"
    /\ UNCHANGED <<tCalls, tBridge, tResults, tResponses, tNext>>

\* session.send raises (the connection is gone): _handle_tool_call raises.
ToolSendFails ==
    /\ tpc = "loop"
    /\ tNext > Len(tCalls)
    /\ tpc' = "raised"
    /\ UNCHANGED <<tCalls, tBridge, tResults, tResponses, tNext, tSent, tReturn>>

ToolNext ==
    \/ ToolCallStep /\ UNCHANGED toolFrame
    \/ ToolSend /\ UNCHANGED toolFrame
    \/ ToolSendFails /\ UNCHANGED toolFrame

(***************************************************************************)
(* The wire parser: GWTDeserializer.__init__ and _parse_response.  The     *)
(* response is a string of characters; json.loads is modelled on arrays,   *)
(* objects, strings, numbers and null.                                     *)
(***************************************************************************)

\* JSON values as json.loads returns them.
JArr(items) == [t |-> "list", items |-> items, keys |-> <<>>, s |-> <<>>, n |-> 0]
JObj(keys, items) == [t |-> "dict", items |-> items, keys |-> keys, s |-> <<>>, n |-> 0]
JStr(s) == [t |-> "str", items |-> <<>>, keys |-> <<>>, s |-> s, n |-> 0]
JNum(n) == [t |-> "int", items |-> <<>>, keys |-> <<>>, s |-> <<>>, n |-> n]
JNull == [t |-> "NoneType", items |-> <<>>, keys |-> <<>>, s |-> <<>>, n |-> 0]

IsSpace(c) == c = " "
IsDigitChar(c) == \E d \in 1..10 : Digit[d] = c

\* str.strip()
RECURSIVE Strip(_)
Strip(s) ==
    IF s = <<>> THEN s
    ELSE IF IsSpace(Head(s)) THEN Strip(Tail(s))
    ELSE IF IsSpace(s[Len(s)]) THEN Strip(SubSeq(s, 1, Len(s) - 1))
    ELSE s

\* str.startswith
StartsWith(s, prefix) ==
    Len(s) >= Len(prefix) /\ SubSeq(s, 1, Len(prefix)) = prefix

\* s[n:]
From(s, n) == SubSeq(s, n + 1, Len(s))

\* The scanner of json.loads: positions in s.
RECURSIVE SkipSpace(_, _)
SkipSpace(s, i) ==
    IF i <= Len(s) /\ IsSpace(s[i]) THEN SkipSpace(s, i + 1) ELSE i

RECURSIVE EndOfDigits(_, _)
EndOfDigits(s, i) ==
    IF i <= Len(s) /\ IsDigitChar(s[i]) THEN EndOfDigits(s, i + 1) ELSE i

Parsed(val, next) == [ok |-> TRUE, val |-> val, next |-> next]
ParseError == [ok |-> FALSE, val |-> JNull, next |-> 0]

RECURSIVE json_value(_, _)
RECURSIVE json_items(_, _, _)
RECURSIVE json_members(_, _, _, _)

\* The value that starts at position i (after white space).
json_value(s, i) ==
    LET j == SkipSpace(s, i) IN
    IF j > Len(s) THEN ParseError
    ELSE IF s[j] = "[" THEN
        LET k == SkipSpace(s, j + 1) IN
        IF k <= Len(s) /\ s[k] = "]" THEN Parsed(JArr(<<>>), k + 1)
        ELSE json_items(s, j + 1, <<>>)
    ELSE IF s[j] = "{" THEN
        LET k == SkipSpace(s, j + 1) IN
        IF k <= Len(s) /\ s[k] = "}" THEN Parsed(JObj(<<>>, <<>>), k + 1)
        ELSE json_members(s, j + 1, <<>>, <<>>)
    ELSE IF s[j] = "\"" THEN
        LET closing == {q \in (j + 1)..Len(s) : s[q] = "\""} IN
        IF closing = {} THEN ParseError
        ELSE LET q == CHOOSE q \in closing : \A r \in closing : q <= r
             IN Parsed(JStr(SubSeq(s, j + 1, q - 1)), q + 1)
    ELSE IF IsDigitChar(s[j]) THEN
        LET e == EndOfDigits(s, j)
        IN Parsed(JNum(StrToInt(SubSeq(s, j, e - 1))), e)
    ELSE IF StartsWith(From(s, j - 1), <<"n", "u", "l", "l">>) THEN
        Parsed(JNull, j + 4)
    ELSE ParseError

\* The elements of an array from position i on, acc the ones before.
json_items(s, i, acc) ==
    LET v == json_value(s, i) IN
    IF ~v.ok THEN ParseError
    ELSE LET k == SkipSpace(s, v.next) IN
         IF k > Len(s) THEN ParseError
         ELSE IF s[k] = "," THEN json_items(s, k + 1, Append(acc, v.val))
         ELSE IF s[k] = "]" THEN Parsed(JArr(Append(acc, v.val)), k + 1)
         ELSE ParseError

\* The members of an object from position i on.
json_members(s, i, keys, vals) ==
    LET key == json_value(s, i) IN
    IF ~key.ok \/ key.val.t # "str" THEN ParseError
    ELSE LET c == SkipSpace(s, key.next) IN
         IF c > Len(s) \/ s[c] # ":" THEN ParseError
         ELSE LET v == json_value(s, c + 1) IN
              IF ~v.ok THEN ParseError
              ELSE LET k == SkipSpace(s, v.next) IN
                   IF k > Len(s) THEN ParseError
                   ELSE IF s[k] = ","
                   THEN json_members(s, k + 1, Append(keys, key.val.s), Append(vals, v.val))
                   ELSE IF s[k] = "}"
                   THEN Parsed(JObj(Append(keys, key.val.s), Append(vals, v.val)), k + 1)
                   ELSE ParseError

\* json.loads: one value and nothing but white space after it
\* (JSONDecodeError, a ValueError, otherwise).
json_loads(s) ==
    LET v == json_value(s, 1) IN
    IF v.ok /\ SkipSpace(s, v.next) > Len(s) THEN v ELSE ParseError

\* The deserializer after a construction that returned.
Constructed(strings, data) ==
    [status |-> "constructed", error |-> "", strings |-> strings,
     data |-> data, pos |-> Len(data)]

\* A construction that raised; no instance exists.
Failed(error) ==
    [status |-> "raised", error |-> error, strings |-> <<>>, data |-> <<>>, pos |-> 0]

OKPrefix == <<"/", "/", "O", "K">>
EXPrefix == <<"/", "/", "E", "X">>

\* __init__ with _parse_response.  len() of an int or of None is a
\* TypeError, [-3] on a dict a KeyError, [-3] of a str a str.
parse_response(raw) ==
    LET content == Strip(raw)
        json_part == IF StartsWith(content, OKPrefix) THEN From(content, 4)
                     ELSE content
    IN
    IF ~StartsWith(content, OKPrefix) /\ StartsWith(content, EXPrefix)
    THEN Failed("ValueError")
    ELSE LET parsed == json_loads(json_part) IN
         IF ~parsed.ok THEN Failed("ValueError")
         ELSE LET v == parsed.val IN
              IF v.t \in {"int", "NoneType"} THEN Failed("TypeError")
              ELSE IF v.t = "str" THEN Failed("ValueError")
              ELSE IF v.t = "dict" THEN
                   IF Len(v.keys) < 3 THEN Failed("ValueError") ELSE Failed("KeyError")
              ELSE IF Len(v.items) < 3 THEN Failed("ValueError")
              ELSE LET table == v.items[Len(v.items) - 2] IN
                   IF table.t # "list" THEN Failed("ValueError")
                   ELSE Constructed(table.items, SubSeq(v.items, 1, Len(v.items) - 3))

\* ---- inputs
LeadValues == {<<>>, <<" ">>}
PrefixValues ==
    {<<>>, OKPrefix, EXPrefix, <<"/", "/", "o", "k">>, <<"O", "K">>}

BodyValues ==
    { <<"[", "[", "\"", "a", "\"", "]", ",", "0", ",", "7", "]">>,
      <<"[", "2", ",", "1", ",", "[", "\"", "a", "\"", ",", "\"", "b", "\"", "]", ",", "0", ",", "7", "]">>,
      <<"[", "[", "]", ",", "0", ",", "7", "]">>,
      <<"[", "[", "1", "]", ",", "0", ",", "7", "]">>,
      <<"[", "1", ",", "[", "\"", "a", "\"", ",", "2", "]", ",", "0", ",", "7", "]">>,
      <<"[", "[", "n", "u", "l", "l", "]", ",", "0", ",", "7", "]">>,
      <<"[", "0", ",", "7", "]">>,
      <<"[", "]">>,
      <<"[", "5", ",", "0", ",", "7", "]">>,
      <<"[", "\"", "a", "\"", ",", "0", ",", "7", "]">>,
      <<"{", "}">>,
      <<"{", "\"", "a", "\"", ":", "1", ",", "\"", "b", "\"", ":", "2", ",", "\"", "c", "\"", ":", "3", "}">>,
      <<"\"", "a", "b", "c", "d", "\"">>,
      <<"7">>,
      <<"n", "u", "l", "l">>,
      <<"[", "[", "\"", "a", "\"", "]", ",", "0", ",", "7">>,
      <<"[", "[", "\"", "a", "\"", "]", ",", "0", ",", "7", "]", "x">>,
      <<>> }

TrailValues == {<<>>, <<" ">>}

ResponseTexts ==
    {lead \o prefix \o body \o trail :
        lead \in LeadValues, prefix \in PrefixValues,
        body \in BodyValues, trail \in TrailValues}

NotConstructed ==
    [status |-> "none", error |-> "", strings |-> <<>>, data |-> <<>>, pos |-> 0]

WireInit ==
    /\ wRaw \in ResponseTexts
    /\ wOut = NotConstructed

\* GWTDeserializer(response)
Construct ==
    /\ wOut' = parse_response(wRaw)
    /\ UNCHANGED wRaw

WireNext == Construct /\ UNCHANGED wireFrame

(***************************************************************************)
(* The stack reader: GWTDeserializer._pop, _read_string, _is_class_marker  *)
(* and _read_object with some of the registered class readers, on a        *)
(* constructed instance (data, strings, pos, objects).  Strings of the     *)
(* string table are TLA+ strings.                                          *)
(***************************************************************************)

\* Bounds: the length of the enumerated stacks, and how far below 0 the
\* model follows pos.
MaxStack == 2
MaxUnderflow == 1

\* The values json.loads puts on the stack.  A float is kept in halves.
SInt(n) == [t |-> "int", n |-> n]
SFloat(halves) == [t |-> "float", n |-> halves]
SBool(b) == [t |-> "bool", n |-> IF b THEN 1 ELSE 0]
SNull == [t |-> "NoneType", n |-> 0]
SStr == [t |-> "str", n |-> 0]

\* What the readers return.  k is the kind of object, c a class name or a
\* string, e an error message, v a value taken off the stack, items the
\* elements of a list or the fields of a dict.
Obj(k, c, e, v, items) == [k |-> k, c |-> c, e |-> e, v |-> v, items |-> items]
ObjNone == Obj("None", "", "", SNull, <<>>)
ObjRaw(v) == IF v = SNull THEN ObjNone ELSE Obj("raw", "", "", v, <<>>)
ObjStr(s) == Obj("str", s, "", SNull, <<>>)
ObjUnknown(class_str) == Obj("unknown", class_str, "", SNull, <<>>)
ObjError(class_str, e) == Obj("error", class_str, e, SNull, <<>>)
ObjList(items) == Obj("list", "", "", SNull, items)
ObjBool(b) == Obj("raw", "", "", SBool(b), <<>>)
ObjEnum(ordinal) == Obj("enum", "enum", "", ordinal, <<>>)
ObjLokaler(id, navn, c) == Obj("dict", "Lokaler", "", SNull, <<ObjRaw(id), navn, ObjRaw(c)>>)

\* A datetime: its six components.
ObjDatetime(y, mo, d, h, mi, sec) ==
    Obj("datetime", "", "", SNull,
        <<ObjRaw(SInt(y)), ObjRaw(SInt(mo)), ObjRaw(SInt(d)),
          ObjRaw(SInt(h)), ObjRaw(SInt(mi)), ObjRaw(SInt(sec))>>)

\* The dict _deserialize_skema_note returns: id, class_name, html,
\* plain_text, date.
ObjSkemaNote(a, b, e, f, o) == Obj("dict", "SkemaNote2", "", SNull, <<a, b, e, f, o>>)

\* The SkemaLesson _deserialize_skema_begivenhed fills: from the
\* aktivitetList, bemerkning, skoleFag, lokaleList, medarbejderList,
\* skema_id, slut and start.
ObjSkemaLesson(aktiviteter, bemerkning, skolefag, lokaler, medarbejdere, N, slut, start) ==
    Obj("SkemaLesson", "", "", SNull,
        <<aktiviteter, bemerkning, skolefag, lokaler, medarbejdere, N, slut, start>>)

\* The dict _deserialize_aflevering returns: opgave_elev, submission_date,
\* status, bedoemmelse, container_id.
ObjAflevering(j, a, n, b, c) == Obj("dict", "Aflevering", "", SNull, <<j, a, n, b, c>>)

\* The field reads of the class readers, in order.
UDateFields == <<"pop", "pop", "pop", "pop", "pop", "pop", "pop">>
SkemaNoteFields ==
    <<"pop", "str", "pop", "bool", "str", "str", "str", "str",
      "obj", "str", "obj", "obj", "obj", "pop", "pop", "str">>
SkemaBegivenhedFields ==
    <<"obj", "str", "str", "bool", "pop", "obj", "obj", "pop", "obj", "bool",
      "obj", "obj", "pop", "obj", "pop", "str", "bool", "pop", "obj", "bool",
      "obj", "bool", "str", "obj", "str", "bool", "str", "bool", "obj", "obj",
      "obj", "obj", "str", "obj", "obj", "obj", "pop", "bool">>
AfleveringFields ==
    <<"obj", "obj", "pop", "obj", "obj", "bool", "bool", "obj", "obj", "obj",
      "obj", "bool">>

\* The largest C int: datetime() takes its arguments as C ints.
IntMax == 2147483647

IsLeap(y) == y % 4 = 0 /\ (y % 100 # 0 \/ y % 400 = 0)
DaysInMonth(y, mo) ==
    IF mo = 2 THEN (IF IsLeap(y) THEN 29 ELSE 28)
    ELSE IF mo \in {4, 6, 9, 11} THEN 30 ELSE 31

\* try: return datetime(year + 1900, month + 1, day, hour, minute, second)
\* except (ValueError, TypeError): return None.  The additions raise
\* TypeError for None and str; datetime() takes its arguments in order and
\* raises TypeError for one that is not an int, OverflowError for one that
\* is no C int, and ValueError for one out of range.
datetime(year, month, day, hour, minute, second) ==
    LET none == [raised |-> FALSE, err |-> "", val |-> ObjNone]
        overflow == [raised |-> TRUE,
                     err |-> "signed integer is greater than maximum",
                     val |-> ObjNone]
        int(v) == v.t \in {"int", "bool"}
    IN IF year.t \in {"NoneType", "str"} \/ month.t \in {"NoneType", "str"} THEN none
       ELSE IF ~int(year) THEN none
       ELSE IF year.n > IntMax - 1900 THEN overflow
       ELSE IF ~int(month) THEN none
       ELSE IF month.n > IntMax - 1 THEN overflow
       ELSE IF ~(int(day) /\ int(hour) /\ int(minute) /\ int(second)) THEN none
       ELSE LET y == year.n + 1900
                mo == month.n + 1
            IN IF /\ y \in 1..9999
                  /\ mo \in 1..12
                  /\ day.n >= 1 /\ day.n <= DaysInMonth(y, mo)
                  /\ hour.n \in 0..23
                  /\ minute.n \in 0..59
                  /\ second.n \in 0..59
               THEN [raised |-> FALSE, err |-> "",
                     val |-> ObjDatetime(y, mo, day.n, hour.n, minute.n, second.n)]
               ELSE none

\* int(x) of a float: truncation towards zero.
Trunc(halves) == IF halves >= 0 THEN halves \div 2 ELSE -((-halves) \div 2)

\* isinstance(x, int) after the float conversion: bool is an int in Python.
IsInt(v) == v.t \in {"int", "bool", "float"}
IntOf(v) == IF v.t = "float" THEN Trunc(v.n) ELSE v.n

\* bool(x) of a stack value (a str on the stack is taken as non-empty).
TruthyValue(v) ==
    CASE v.t \in {"int", "bool", "float"} -> v.n # 0
      [] v.t = "str" -> TRUE
      [] OTHER -> FALSE

CharAt(s, i) == SubSeq(s, i, i)
SlashAt(s) == {i \in 1..Len(s) : CharAt(s, i) = "/"}
AllDigits(s) == \A i \in 1..Len(s) : \E d \in 1..10 : Digit[d] = CharAt(s, i)

\* int(s) does not raise: white space around, an optional sign, digits.
RECURSIVE StripStr(_)
StripStr(s) ==
    IF Len(s) = 0 THEN s
    ELSE IF CharAt(s, 1) = " " THEN StripStr(SubSeq(s, 2, Len(s)))
    ELSE IF CharAt(s, Len(s)) = " " THEN StripStr(SubSeq(s, 1, Len(s) - 1))
    ELSE s

IntParses(s) ==
    LET t == StripStr(s)
        u == IF Len(t) > 0 /\ CharAt(t, 1) \in {"+", "-"}
             THEN SubSeq(t, 2, Len(t)) ELSE t
    IN Len(u) > 0 /\ AllDigits(u)

\* _is_class_marker
is_class_marker(s) ==
    /\ SlashAt(s) # {}
    /\ Cardinality(SlashAt(s)) = 1
    /\ LET i == CHOOSE i \in SlashAt(s) : TRUE IN
        /\ \E j \in 1..(i - 1) : CharAt(s, j) = "."
        /\ IntParses(SubSeq(s, i + 1, Len(s)))

\* self._deserializers, in the order of registration, restricted to the
\* readers the model has.
Deserializers ==
    << [class_prefix |-> "java.util.ArrayList", func |-> "_deserialize_arraylist"],
       [class_prefix |-> "java.lang.Integer", func |-> "_deserialize_integer"],
       [class_prefix |-> "java.lang.Boolean", func |-> "_deserialize_boolean_obj"],
       [class_prefix |-> "dk.uddata.gwt.comm.shared.UDate", func |-> "_deserialize_udate"],
       [class_prefix |-> "dk.uddata.model.skema.SkemaBegivenhed",
        func |-> "_deserialize_skema_begivenhed"],
       [class_prefix |-> "dk.uddata.model.skema.SkemaBegivenhed$LokalerISkema",
        func |-> "_deserialize_lokaler"],
       [class_prefix |-> "dk.uddata.model.skema.SkemaBegivenhed$Status",
        func |-> "_deserialize_enum"],
       [class_prefix |-> "dk.uddata.model.skemanoter.SkemaNote2",
        func |-> "_deserialize_skema_note"],
       [class_prefix |-> "dk.uddata.model.opgave.Aflevering",
        func |-> "_deserialize_aflevering"],
       [class_prefix |-> "dk.uddata.model.opgave.AfleveringStatus",
        func |-> "_deserialize_enum"] >>

\* The registered prefixes class_str starts with.
Matching(class_str) ==
    {i \in 1..Len(Deserializers) :
        /\ Len(class_str) >= Len(Deserializers[i].class_prefix)
        /\ SubSeq(class_str, 1, Len(Deserializers[i].class_prefix))
            = Deserializers[i].class_prefix}

Longest(matching) ==
    CHOOSE i \in matching : \A j \in matching :
        Len(Deserializers[j].class_prefix) <= Len(Deserializers[i].class_prefix)

\* A dispatch by the first registered prefix that matches.
first_match(class_str) ==
    IF Matching(class_str) = {} THEN ""
    ELSE Deserializers[CHOOSE i \in Matching(class_str) :
                        \A j \in Matching(class_str) : i <= j].func

\* A dispatch that reads a class without a registered prefix as an Integer.
best_match_or_integer(class_str) ==
    IF Matching(class_str) = {} THEN "_deserialize_integer"
    ELSE Deserializers[Longest(Matching(class_str))].func

\* The loop over self._deserializers: the reader of the longest registered
\* prefix of class_str, "" when there is none.
best_match(class_str) ==
    IF Matching(class_str) = {} THEN ""
    ELSE Deserializers[Longest(Matching(class_str))].func

\* The state of a GWTDeserializer while it reads: self.pos, self.objects,
\* and, as history, one record per _read_object call that has returned and
\* the cache slots of the objects still being read.
ReaderState(pos, objects) == [pos |-> pos, objects |-> objects, open |-> {}, log |-> <<>>]

\* The outcome of a call: the state it leaves, whether it raised and with
\* which message, and what it returned.
Res(st, raised, err, val) == [st |-> st, raised |-> raised, err |-> err, val |-> val]

\* _pop: the position is decremented before it is tested.
pop(st, data) ==
    LET st1 == [st EXCEPT !.pos = st.pos - 1]
    IN IF st1.pos < 0 THEN Res(st1, TRUE, "Stack underflow", SNull)
       ELSE Res(st1, FALSE, "", data[st1.pos + 1])

\* _read_string
read_string(st, data, strings) ==
    LET p == pop(st, data)
        val == p.val
    IN IF p.raised THEN Res(p.st, TRUE, p.err, ObjNone)
       ELSE IF IsInt(val) /\ IntOf(val) > 0 /\ IntOf(val) <= Len(strings)
            THEN Res(p.st, FALSE, "", ObjStr(strings[IntOf(val)]))
            ELSE Res(p.st, FALSE, "", ObjNone)

\* _read_bool
read_bool(st, data) ==
    LET p == pop(st, data)
    IN IF p.raised THEN Res(p.st, TRUE, p.err, ObjNone)
       ELSE Res(p.st, FALSE, "", ObjBool(TruthyValue(p.val)))

\* One record of the history of _read_object calls.
Logged(st0, r, b, path, idx, func) ==
    [b |-> b, path |-> path, idx |-> idx, func |-> func,
     pos0 |-> st0.pos, pos1 |-> r.st.pos,
     objects0 |-> st0.objects, objects1 |-> r.st.objects,
     reserved |-> idx \in st0.open, depth |-> Cardinality(st0.open),
     raised |-> r.raised, err |-> r.err, ret |-> r.val]

WithLog(st0, r, b, path, idx) ==
    [r EXCEPT !.st.log = Append(r.st.log, Logged(st0, r, b, path, idx, ""))]

WithLogOf(st0, r, b, path, idx, func) ==
    [r EXCEPT !.st.log = Append(r.st.log, Logged(st0, r, b, path, idx, func))]

\* A resolution that is off by one slot.
resolve_next(objects, idx) ==
    IF idx + 1 < Len(objects) THEN objects[idx + 2] ELSE ObjNone

\* if 0 <= idx < len(self.objects): return self.objects[idx]; return None
resolve(objects, idx) ==
    IF 0 <= idx /\ idx < Len(objects) THEN objects[idx + 1] ELSE ObjNone

\* A reader that starts without a slot of its own.
reserve_nothing(objects) == objects

\* obj_idx = len(self.objects); self.objects.append(None)
reserve(objects) == Append(objects, ObjNone)

\* A handler that leaves the reserved slot as it is when the reader raises.
caught_as_null(class_str, r) == IF r.raised THEN ObjNone ELSE r.val

\* try: obj = deserializer() except Exception as e: the error placeholder
caught(class_str, r) == IF r.raised THEN ObjError(class_str, r.err) ELSE r.val

RECURSIVE read_object(_, _, _)
RECURSIVE deserialize(_, _, _, _)
RECURSIVE arraylist_items(_, _, _, _, _)
RECURSIVE read_fields(_, _, _, _, _)

\* One field of a class reader: self._pop(), self._read_string(),
\* self._read_bool() or self._read_object().
read_field(kind, st, data, strings) ==
    CASE kind = "pop" -> LET p == pop(st, data)
                         IN Res(p.st, p.raised, p.err, ObjRaw(p.val))
      [] kind = "str" -> read_string(st, data, strings)
      [] kind = "bool" -> read_bool(st, data)
      [] kind = "obj" -> read_object(st, data, strings)

\* The field reads of a class reader, in order; the first that raises ends
\* the reader.  val is the list of the values read.
read_fields(st, data, strings, kinds, values) ==
    IF kinds = <<>> THEN Res(st, FALSE, "", values)
    ELSE CHOOSE out \in
            { IF r.raised THEN Res(r.st, TRUE, r.err, values)
              ELSE read_fields(r.st, data, strings, Tail(kinds), Append(values, r.val)) :
              r \in {read_field(Head(kinds), st, data, strings)} } : TRUE

\* _deserialize_udate
deserialize_udate(st, data) ==
    LET r == read_fields(st, data, <<>>, UDateFields, <<>>)
    IN IF r.raised THEN Res(r.st, TRUE, r.err, ObjNone)
       ELSE LET d == datetime(r.val[2].v, r.val[3].v, r.val[4].v,
                              r.val[5].v, r.val[6].v, r.val[7].v)
            IN Res(r.st, d.raised, d.err, d.val)

\* _deserialize_skema_note
deserialize_skema_note(st, data, strings) ==
    LET r == read_fields(st, data, strings, SkemaNoteFields, <<>>)
        f == r.val
    IN IF r.raised THEN Res(r.st, TRUE, r.err, ObjNone)
       ELSE Res(r.st, FALSE, "", ObjSkemaNote(f[1], f[2], f[5], f[6], f[12]))

\* _deserialize_skema_begivenhed
deserialize_skema_begivenhed(st, data, strings) ==
    LET r == read_fields(st, data, strings, SkemaBegivenhedFields, <<>>)
        f == r.val
    IN IF r.raised THEN Res(r.st, TRUE, r.err, ObjNone)
       ELSE Res(r.st, FALSE, "",
                ObjSkemaLesson(f[1], f[2], f[16], f[19], f[21], f[31], f[34], f[35]))

\* _deserialize_aflevering
deserialize_aflevering(st, data, strings) ==
    LET r == read_fields(st, data, strings, AfleveringFields, <<>>)
        f == r.val
    IN IF r.raised THEN Res(r.st, TRUE, r.err, ObjNone)
       ELSE Res(r.st, FALSE, "", ObjAflevering(f[9], f[1], f[11], f[2], f[3]))

\* The loop of _deserialize_arraylist: count calls of _read_object, the
\* first that raises ends the reader.
arraylist_items(st, data, strings, count, result) ==
    IF count <= 0 THEN Res(st, FALSE, "", ObjList(result))
    ELSE CHOOSE out \in
            { IF r.raised THEN Res(r.st, TRUE, r.err, ObjNone)
              ELSE arraylist_items(r.st, data, strings, count - 1, Append(result, r.val)) :
              r \in {read_object(st, data, strings)} } : TRUE

\* _deserialize_arraylist: range(count) raises TypeError unless count is an int.
deserialize_arraylist(st, data, strings) ==
    LET p == pop(st, data)
    IN IF p.raised THEN Res(p.st, TRUE, p.err, ObjNone)
       ELSE IF p.val.t \notin {"int", "bool"} THEN Res(p.st, TRUE, "TypeError", ObjNone)
       ELSE arraylist_items(p.st, data, strings, p.val.n, <<>>)

\* _deserialize_integer
deserialize_integer(st, data) ==
    LET p == pop(st, data)
    IN IF p.raised THEN Res(p.st, TRUE, p.err, ObjNone)
       ELSE Res(p.st, FALSE, "", ObjRaw(p.val))

\* _deserialize_boolean_obj
deserialize_boolean_obj(st, data) == read_bool(st, data)

\* _deserialize_enum
deserialize_enum(st, data) ==
    LET p == pop(st, data)
    IN IF p.raised THEN Res(p.st, TRUE, p.err, ObjNone)
       ELSE Res(p.st, FALSE, "", ObjEnum(p.val))

\* _deserialize_lokaler
deserialize_lokaler(st, data, strings) ==
    LET id == pop(st, data)
        navn == read_string(id.st, data, strings)
        c == pop(navn.st, data)
    IN IF id.raised THEN Res(id.st, TRUE, id.err, ObjNone)
       ELSE IF navn.raised THEN Res(navn.st, TRUE, navn.err, ObjNone)
       ELSE IF c.raised THEN Res(c.st, TRUE, c.err, ObjNone)
       ELSE Res(c.st, FALSE, "", ObjLokaler(id.val, navn.val, c.val))

\* deserializer(): the call of the registered reader.
deserialize(func, st, data, strings) ==
    CASE func = "_deserialize_arraylist" -> deserialize_arraylist(st, data, strings)
      [] func = "_deserialize_integer" -> deserialize_integer(st, data)
      [] func = "_deserialize_boolean_obj" -> deserialize_boolean_obj(st, data)
      [] func = "_deserialize_lokaler" -> deserialize_lokaler(st, data, strings)
      [] func = "_deserialize_enum" -> deserialize_enum(st, data)
      [] func = "_deserialize_udate" -> deserialize_udate(st, data)
      [] func = "_deserialize_skema_note" -> deserialize_skema_note(st, data, strings)
      [] func = "_deserialize_skema_begivenhed" ->
            deserialize_skema_begivenhed(st, data, strings)
      [] func = "_deserialize_aflevering" -> deserialize_aflevering(st, data, strings)

\* _read_object
read_object(st, data, strings) ==
    LET p == pop(st, data)
        b == p.val
        n == IntOf(b)
    IN IF p.raised THEN WithLog(st, Res(p.st, TRUE, p.err, ObjNone), SNull, "underflow", -1)
       ELSE IF ~IsInt(b) THEN WithLog(st, Res(p.st, FALSE, "", ObjNone), b, "not int", -1)
       ELSE IF n < 0 THEN
            LET idx == -(n + 1)
            IN WithLog(st, Res(p.st, FALSE, "", resolve(p.st.objects, idx)),
                       b, "back-reference", idx)
       ELSE IF n = 0 THEN WithLog(st, Res(p.st, FALSE, "", ObjNone), b, "zero", -1)
       ELSE IF n > Len(strings) THEN WithLog(st, Res(p.st, FALSE, "", ObjNone), b, "beyond", -1)
       ELSE LET class_str == strings[n]
                func == best_match(class_str)
                obj_idx == Len(p.st.objects)
            IN IF ~is_class_marker(class_str)
               THEN WithLog(st, Res(p.st, FALSE, "",
                                    ObjRaw(IF b.t = "float" THEN SInt(n) ELSE b)),
                            b, "raw", -1)
               ELSE IF func = ""
               THEN WithLog(st, Res([p.st EXCEPT !.objects = Append(@, ObjUnknown(class_str))],
                                    FALSE, "", ObjUnknown(class_str)),
                            b, "unknown", obj_idx)
               ELSE LET st1 == [p.st EXCEPT !.objects = reserve(@),
                                            !.open = @ \cup {obj_idx}]
                    IN CHOOSE out \in
                         { LET obj == caught(class_str, r)
                               st2 == [r.st EXCEPT
                                         !.objects = IF obj_idx < Len(@)
                                                     THEN [@ EXCEPT ![obj_idx + 1] = obj]
                                                     ELSE @,
                                         !.open = @ \ {obj_idx}]
                           IN WithLogOf(st, Res(st2, FALSE, "", obj), b,
                                        IF r.raised THEN "reader raised" ELSE "reader",
                                        obj_idx, func) :
                           r \in {deserialize(func, st1, data, strings)} } : TRUE

\* _extract_lessons_recursive: the SkemaLesson objects in obj, in the
\* order of the walk through lists and dict values.
RECURSIVE extract_lessons_recursive(_)
RECURSIVE extract_lessons_of(_)
extract_lessons_of(items) ==
    IF items = <<>> THEN <<>>
    ELSE extract_lessons_recursive(Head(items)) \o extract_lessons_of(Tail(items))

extract_lessons_recursive(obj) ==
    IF obj.k = "SkemaLesson" THEN <<obj>>
    ELSE IF obj.k \in {"list", "dict"} THEN extract_lessons_of(obj.items)
    ELSE <<>>

\* parse_lessons from an instance in state (pos, objects): the call that
\* reads the root, and the lessons returned.
parse_lessons(pos, objects, data, strings) ==
    CHOOSE out \in
        { [r EXCEPT !.raised = FALSE,
                    !.val = ObjList(IF r.raised THEN <<>>
                                    ELSE extract_lessons_recursive(r.val))] :
          r \in {read_object(ReaderState(pos, objects), data, strings)} } : TRUE

\* The string table of the modelled responses.
StringTable ==
    << "java.util.ArrayList/4159755760",
       "java.lang.Integer/3438268394",
       "com.example.Unknown/7",
       "22w htx",
       "a.b/-5",
       "dk.uddata.model.skema.SkemaBegivenhed$LokalerISkema/9",
       "dk.uddata.gwt.comm.shared.UDate/3385151746",
       "dk.uddata.model.skemanoter.SkemaNote2/101",
       "dk.uddata.model.skema.SkemaBegivenhed/102",
       "dk.uddata.model.opgave.Aflevering/103",
       "dk.uddata.model.opgave.AfleveringStatus/104",
       "UDate:",
       "Lektier: kap 3",
       "<p>Lektier</p>" >>

\* The values of the enumerated stacks.
StackValues ==
    {SInt(n) : n \in {-2, -1, 0, 1, 2, 3, 4, 5, Len(StringTable) + 1}}
        \cup {SBool(TRUE), SFloat(5), SNull, SStr}

\* A stack of integers, given top first.
TopFirst(ns) == [i \in 1..Len(ns) |-> SInt(ns[Len(ns) + 1 - i])]

\* An UDate, top first: marker, tag, year - 1900, month - 1, day, hour,
\* minute, second.
UDateStack(year, month, day) == <<7, 12, year, month, day, 8, 30, 0>>

\* Longer stacks: a list of two elements whose first is a list with a count
\* that is not a number; a list that holds a reference to itself; a list
\* announcing more elements than the stack has; a room; a list of an object
\* of an unknown class and two references; dates (2025-11-10, month 13 with
\* day 0, a year that is no C int, a day that is a string); a list of a date
\* that is none and an Integer; a note with a date; a lesson; a status; an
\* Aflevering.
PickedStacks ==
    { <<SInt(4), SInt(2), SStr, SInt(1), SInt(2), SInt(1)>>,
      <<SInt(-1), SInt(1), SInt(1)>>,
      <<SInt(5), SInt(1)>>,
      <<SInt(0), SInt(4), SInt(7), SInt(6)>>,
      <<SInt(-5), SInt(-2), SInt(3), SInt(3), SInt(1)>>,
      TopFirst(UDateStack(125, 10, 10)),
      TopFirst(UDateStack(125, 12, 0)),
      TopFirst(UDateStack(IntMax, 10, 10)),
      [TopFirst(UDateStack(125, 10, 10)) EXCEPT ![4] = SStr],
      TopFirst(<<1, 2>> \o UDateStack(125, 12, 0) \o <<2, 4>>),
      TopFirst(<<8, 77, 4, 0, 0, 13, 14, 0, 0, 0, 0, 0>>
               \o UDateStack(125, 10, 10) \o <<0, 0, 0, 0>>),
      TopFirst(<<9>> \o [i \in 1..Len(SkemaBegivenhedFields) |-> 4]),
      TopFirst(<<11, 1>>),
      TopFirst(<<10>> \o [i \in 1..Len(AfleveringFields) |-> 0]) }

Stacks == PickedStacks \cup UNION {[1..n -> StackValues] : n \in 0..MaxStack}

\* The public decode operations among the modelled ones.
PublicOps == {"parse_assignments", "parse_single_aflevering", "parse_lessons"}

\* The last operation: its name, the state it started in, its outcome, and
\* whether only public operations have run on the instance so far.
NoStackOp ==
    [op |-> "constructed", pos0 |-> 0, objects0 |-> <<>>, raised |-> FALSE,
     ret |-> ObjNone, public |-> TRUE]
StackOp(op, r) ==
    [op |-> op, pos0 |-> sPos, objects0 |-> sObjects, raised |-> r.raised,
     ret |-> r.val, public |-> sOp.public /\ op \in PublicOps]

\* GWTDeserializer(response_text), after __init__
StackInit ==
    /\ sData \in Stacks
    /\ sStrings = StringTable
    /\ sPos = Len(sData)
    /\ sObjects = <<>>
    /\ sLog = <<>>
    /\ sOp = NoStackOp

\* A call of _read_string on the instance.
ReadString ==
    /\ sPos > -MaxUnderflow
    /\ \E r \in {read_string(ReaderState(sPos, sObjects), sData, sStrings)} :
          /\ sPos' = r.st.pos
          /\ sObjects' = r.st.objects
          /\ sLog' = <<>>
          /\ sOp' = StackOp("_read_string", r)
    /\ UNCHANGED <<sData, sStrings>>
    /\ UNCHANGED stackFrame

\* A call of _read_object on the instance.
ReadObject ==
    /\ sPos > -MaxUnderflow
    /\ \E r \in {read_object(ReaderState(sPos, sObjects), sData, sStrings)} :
          /\ sPos' = r.st.pos
          /\ sObjects' = r.st.objects
          /\ sLog' = r.st.log
          /\ sOp' = StackOp("_read_object", r)
    /\ UNCHANGED <<sData, sStrings>>
    /\ UNCHANGED stackFrame

\* parse_assignments and parse_single_aflevering up to the root object:
\* self.pos = len(self.data), self.objects = [], and _read_object inside
\* try/except.
ReadRoot ==
    /\ \E op \in {"parse_assignments", "parse_single_aflevering"} :
        \E r \in {read_object(ReaderState(Len(sData), <<>>), sData, sStrings)} :
           /\ sPos' = r.st.pos
           /\ sObjects' = r.st.objects
           /\ sLog' = r.st.log
           /\ sOp' = [StackOp(op, r) EXCEPT !.pos0 = Len(sData), !.objects0 = <<>>,
                                            !.raised = FALSE]
    /\ UNCHANGED <<sData, sStrings>>
    /\ UNCHANGED stackFrame

\* parse_lessons up to the root object: _read_object inside try/except, from
\* where the instance is.
ParseLessons ==
    /\ sPos > -MaxUnderflow
    /\ \E r \in {parse_lessons(sPos, sObjects, sData, sStrings)} :
          /\ sPos' = r.st.pos
          /\ sObjects' = r.st.objects
          /\ sLog' = r.st.log
          /\ sOp' = StackOp("parse_lessons", r)
    /\ UNCHANGED <<sData, sStrings>>
    /\ UNCHANGED stackFrame

StackNext == ReadString \/ ReadObject \/ ReadRoot \/ ParseLessons

(***************************************************************************)
(* StudiePlusRequestsScraper._extract_lessons: the list of lessons built   *)
(* from the time blocks, its order and its homework and note flags         *)
(***************************************************************************)
\* Longest list of time blocks explored.
MaxExtract == 3

\* The dict built for one time block.  A date is a day number, a time of
\* day a slot number: 'date' and the zero-padded 'time' string order as the
\* numbers they are formatted from.
lesson(date, start, end, subject, has_homework, has_note) ==
    [id |-> <<date, start>>, date |-> date, time |-> <<start, end>>,
     subject |-> subject, has_homework |-> has_homework, has_note |-> has_note]

\* any(l['id'] == lesson['id'] and l['subject'] == lesson['subject'] for l in lessons)
already_listed(lessons, l) ==
    \E i \in 1..Len(lessons) :
        lessons[i].id = l.id /\ lessons[i].subject = l.subject

\* The second pass: a lesson is appended unless one with its id and subject
\* is in the list.
RECURSIVE append_lessons(_, _)
append_lessons(blocks, lessons) ==
    IF blocks = <<>> THEN lessons
    ELSE append_lessons(Tail(blocks),
                        IF already_listed(lessons, Head(blocks)) THEN lessons
                        ELSE Append(lessons, Head(blocks)))

\* (x['date'], x['time']) < (y['date'], y['time'])
key_less(x, y) ==
    \/ x.date < y.date
    \/ /\ x.date = y.date
       /\ \/ x.time[1] < y.time[1]
          \/ x.time[1] = y.time[1] /\ x.time[2] < y.time[2]

\* list.sort is stable: a lesson goes behind every lesson whose key is not
\* larger than its own.
RECURSIVE insert_by_date_time(_, _)
insert_by_date_time(sorted, l) ==
    IF sorted = <<>> THEN <<l>>
    ELSE IF key_less(l, Head(sorted)) THEN <<l>> \o sorted
    ELSE <<Head(sorted)>> \o insert_by_date_time(Tail(sorted), l)

RECURSIVE sort_by_date_time(_, _)
sort_by_date_time(lessons, sorted) ==
    IF lessons = <<>> THEN sorted
    ELSE sort_by_date_time(Tail(lessons), insert_by_date_time(sorted, Head(lessons)))

\* The loop that keeps the flags on the first lesson of a group only; prev
\* is (prev_date, prev_subject, prev_had_hw, prev_had_note).
NoPrev == [date |-> 0, subject |-> "", had_hw |-> FALSE, had_note |-> FALSE]

walk_lesson(l, prev) ==
    LET same_group == l.date = prev.date /\ l.subject = prev.subject
    IN  IF same_group
        THEN [l EXCEPT !.has_homework = IF prev.had_hw THEN FALSE ELSE @,
                       !.has_note = IF prev.had_note THEN FALSE ELSE @]
        ELSE l

walk_prev(l, prev) ==
    LET same_group == l.date = prev.date /\ l.subject = prev.subject
    IN  [date |-> l.date, subject |-> l.subject,
         had_hw |-> IF same_group THEN prev.had_hw ELSE l.has_homework,
         had_note |-> IF same_group THEN prev.had_note ELSE l.has_note]

RECURSIVE walk_flags(_, _)
walk_flags(lessons, prev) ==
    IF lessons = <<>> THEN <<>>
    ELSE <<walk_lesson(Head(lessons), prev)>>
         \o walk_flags(Tail(lessons), walk_prev(Head(lessons), prev))

_extract_lessons(blocks) ==
    walk_flags(sort_by_date_time(append_lessons(blocks, <<>>), <<>>), NoPrev)

\* The lessons the time blocks of a response can give: one subject in
\* three consecutive slots of a day under several flags, another subject,
\* another day.
TimeBlocks ==
    { lesson(10, 8, 9, "Mat", hw, note) : hw \in BOOLEAN, note \in BOOLEAN }
    \cup { lesson(10, 9, 10, "Mat", FALSE, FALSE),
           lesson(10, 9, 10, "Mat", TRUE, TRUE),
           lesson(10, 9, 10, "Mat", TRUE, FALSE),
           lesson(10, 10, 11, "Mat", TRUE, TRUE),
           lesson(10, 9, 10, "Dan", TRUE, TRUE),
           lesson(11, 8, 9, "Mat", TRUE, TRUE) }

RECURSIVE BlockLists(_)
BlockLists(n) ==
    IF n = 0 THEN {<<>>}
    ELSE LET shorter == BlockLists(n - 1)
         IN  shorter \cup { Append(s, b) : s \in { t \in shorter : Len(t) = n - 1 },
                                           b \in TimeBlocks }

ExtractIdle ==
    /\ xBlocks = <<>>
    /\ xLessons = <<>>
    /\ xpc = "idle"

ExtractInit ==
    /\ xBlocks \in BlockLists(MaxExtract)
    /\ xLessons = <<>>
    /\ xpc = "blocks"

ExtractLessons ==
    /\ xpc = "blocks"
    /\ xLessons' = _extract_lessons(xBlocks)
    /\ xpc' = "returned"
    /\ UNCHANGED xBlocks
    /\ UNCHANGED extractFrame

ExtractNext == ExtractLessons

(***************************************************************************)
(* api.py: get_lesson_detail and get_all_assignments, which answer from    *)
(* the global _cache or fetch through the scraper and store what came back *)
(***************************************************************************)
\* Bound: the clock is read at most this many periods after the start.
MaxApiTime == 3

ASSIGNMENTS_TTL == 600
LESSON_DETAILS_TTL == 300

ApiDates == {"2025-11-10"}
ApiTimes == {"08:15-09:15", "09:15-10:00"}

\* f"lesson_{date}_{time}"
lesson_key(date, time) == "lesson_" \o date \o "_" \o time
\* f"assignments_{'open' if only_open else 'all'}"
assignments_key(only_open) ==
    "assignments_" \o (IF only_open THEN "open" ELSE "all")

ApiKeys ==
    { lesson_key(d, t) : d \in ApiDates, t \in ApiTimes }
    \cup { assignments_key(o) : o \in BOOLEAN }

\* What a fetch gave: the value the scraper returned, whether the fetch
\* failed, whether the scraper raised.
Fetched(val, failed, raised) == [val |-> val, failed |-> failed, raised |-> raised]

\* A dict of the API: a lesson, an error record, or the assignments result.
ApiDict(error, date, time, count, only_open, assignments) ==
    [error |-> error, date |-> date, time |-> time, count |-> count,
     only_open |-> only_open, assignments |-> assignments]

\* scraper.get_lesson_details: the lesson of the week's schedule with this
\* date and time, or {'error': 'Lesson not found at ...'}; parse_schedule
\* can raise.
lesson_details_fetch(date, time) ==
    { Fetched(ApiDict("", date, time, 0, FALSE, <<>>), FALSE, FALSE),
      Fetched(ApiDict("Lesson not found at " \o date \o " " \o time,
                      "", "", 0, FALSE, <<>>), TRUE, FALSE),
      Fetched(ApiDict("", "", "", 0, FALSE, <<>>), TRUE, TRUE) }

\* scraper.get_homework: the assignments, or [] when anything raised.
homework_fetch(only_open) ==
    { Fetched(<<"Rapport">>, FALSE, FALSE),
      Fetched(<<>>, FALSE, FALSE),
      Fetched(<<>>, TRUE, FALSE) }

\* The last call of the API.
ApiCall(op, key, fetched, fetch, raised, result) ==
    [op |-> op, key |-> key, fetched |-> fetched, fetch |-> fetch,
     raised |-> raised, result |-> result]

NoApiDict == ApiDict("", "", "", 0, FALSE, <<>>)
NoFetch == Fetched(NoApiDict, FALSE, FALSE)
NoApiCall == ApiCall("none", "", FALSE, NoFetch, FALSE, NoApiDict)

ApiIdle ==
    /\ pCache = <<>>
    /\ pNow = 0
    /\ pCall = NoApiCall

ApiInit ==
    /\ pCache = [k \in ApiKeys |-> Missing]
    /\ pNow = 0
    /\ pCall = NoApiCall

\* get_lesson_detail(date, time)
GetLessonDetail ==
    \E date \in ApiDates, time \in ApiTimes :
    \E detail \in lesson_details_fetch(date, time) :
        LET cache_key == lesson_key(date, time)
            cached == cache_get(pCache, cache_key, LESSON_DETAILS_TTL, pNow)
        IN  /\ UNCHANGED pNow
            /\ IF cached.result # Miss
               THEN /\ pCache' = cached.cache
                    /\ pCall' = ApiCall("get_lesson_detail", cache_key, FALSE,
                                        NoFetch, FALSE, cached.result[1])
               ELSE IF detail.raised
               THEN /\ pCache' = cached.cache
                    /\ pCall' = ApiCall("get_lesson_detail", cache_key, TRUE,
                                        detail, TRUE, NoApiDict)
               ELSE /\ pCache' = cache_set(cached.cache, cache_key, detail.val, pNow)
                    /\ pCall' = ApiCall("get_lesson_detail", cache_key, TRUE,
                                        detail, FALSE, detail.val)

\* get_all_assignments(only_open)
GetAllAssignments ==
    \E only_open \in BOOLEAN :
    \E assignments \in homework_fetch(only_open) :
        LET cache_key == assignments_key(only_open)
            cached == cache_get(pCache, cache_key, ASSIGNMENTS_TTL, pNow)
            result == ApiDict("", "", "", Len(assignments.val), only_open,
                              assignments.val)
        IN  /\ UNCHANGED pNow
            /\ IF cached.result # Miss
               THEN /\ pCache' = cached.cache
                    /\ pCall' = ApiCall("get_all_assignments", cache_key, FALSE,
                                        NoFetch, FALSE, cached.result[1])
               ELSE /\ pCache' = cache_set(cached.cache, cache_key, result, pNow)
                    /\ pCall' = ApiCall("get_all_assignments", cache_key, TRUE,
                                        assignments, FALSE, result)

\* Five minutes pass.
ApiTick ==
    /\ pNow < MaxApiTime * LESSON_DETAILS_TTL
    /\ pNow' = pNow + LESSON_DETAILS_TTL
    /\ UNCHANGED <<pCache, pCall>>

ApiNext ==
    \/ GetLessonDetail /\ UNCHANGED apiFrame
    \/ GetAllAssignments /\ UNCHANGED apiFrame
    \/ ApiTick /\ UNCHANGED apiFrame

(***************************************************************************)
(* StudiePlusRequestsScraper: login() and the operations that send a       *)
(* GWT-RPC call through _make_gwt_call                                     *)
(***************************************************************************)
base_url == "https://all.studieplus.dk"

\* pattern in s, for Python strings
InStr(pattern, s) ==
    \E i \in 1..(Len(s) - Len(pattern) + 1) :
        SubSeq(s, i, i + Len(pattern) - 1) = pattern

\* A request handed to self.session.
Request(kind, url) == [kind |-> kind, url |-> url]

\* What the servers do during one login: the school lookup gives an instnr,
\* None or raises; the first POST returns or raises; the credential POST
\* ends on response.url or raises.
LoginEnv(instnr, first, url) == [instnr |-> instnr, first |-> first, url |-> url]
NoEnv == LoginEnv("", "", "")
LoginEnvs ==
    { LoginEnv("None", "", ""),
      LoginEnv("raise", "", ""),
      LoginEnv("151", "raise", ""),
      LoginEnv("151", "ok", "raise"),
      LoginEnv("151", "ok", base_url \o "/skema/skema.html"),
      LoginEnv("151", "ok", base_url \o "/forside"),
      LoginEnv("151", "ok", base_url \o "/login/doLogin?error=1") }

\* login() that takes a credential POST that came back for a success.
login_any_url(logged_in, env) ==
    IF logged_in THEN [ret |-> TRUE, logged_in |-> TRUE, requests |-> <<>>]
    ELSE LET page == <<Request("GET", base_url \o "/")>>
             first == <<Request("POST", base_url \o "/login/doLogin")>>
             cred == <<Request("POST credentials", base_url \o "/login/doLogin")>>
         IN  IF env.instnr \in {"None", "raise"}
             THEN [ret |-> FALSE, logged_in |-> FALSE, requests |-> page]
             ELSE IF env.first = "raise"
             THEN [ret |-> FALSE, logged_in |-> FALSE, requests |-> page \o first]
             ELSE IF env.url = "raise"
             THEN [ret |-> FALSE, logged_in |-> FALSE,
                   requests |-> page \o first \o cred]
             ELSE [ret |-> TRUE, logged_in |-> TRUE,
                   requests |-> page \o first \o cred]

\* login(): the value returned, self.logged_in afterwards, the requests sent.
login(logged_in, env) ==
    IF logged_in THEN [ret |-> TRUE, logged_in |-> TRUE, requests |-> <<>>]
    ELSE LET page == <<Request("GET", base_url \o "/")>>
             first == <<Request("POST", base_url \o "/login/doLogin")>>
             cred == <<Request("POST credentials", base_url \o "/login/doLogin")>>
         IN  IF env.instnr \in {"None", "raise"}
             THEN [ret |-> FALSE, logged_in |-> FALSE, requests |-> page]
             ELSE IF env.first = "raise"
             THEN [ret |-> FALSE, logged_in |-> FALSE, requests |-> page \o first]
             ELSE IF env.url = "raise"
             THEN [ret |-> FALSE, logged_in |-> FALSE,
                   requests |-> page \o first \o cred]
             ELSE IF InStr("skema", env.url) \/ InStr("forside", env.url)
             THEN [ret |-> TRUE, logged_in |-> TRUE,
                   requests |-> page \o first \o cred]
             ELSE [ret |-> FALSE, logged_in |-> FALSE,
                   requests |-> page \o first \o cred]

\* _make_gwt_call: one POST of the payload to the service.
_make_gwt_call(service_url) == <<Request("RPC", service_url)>>

\* The operations that call _make_gwt_call: the service, what the operation
\* gives when login() fails, whether the call sits in a try that turns an
\* exception into that value.
GwtOp(name, service, failure, guarded) ==
    [name |-> name, service |-> service, failure |-> failure, guarded |-> guarded]
GwtOps ==
    { GwtOp("get_lesson_files", "/skema/ressourceservice", "[]", TRUE),
      GwtOp("get_file_download_url", "/skema/ressourceservice", "None", TRUE),
      GwtOp("get_note_for_skema", "/skema/skemanoteservice", "None", TRUE),
      GwtOp("get_schedule_raw", "/skema/skema/skemaservice", "Login failed", FALSE),
      GwtOp("get_homework_messages_raw", "/skema/skema/skemaservice", "Login failed", FALSE),
      GwtOp("get_assignments_raw", "/opgave/opgaveservice", "Login failed", FALSE),
      GwtOp("get_aflevering_raw", "/opgave/opgaveservice", "Login failed", FALSE),
      GwtOp("get_assignment_files", "/opgave/ressourceservice", "[]", TRUE) }

\* What the service answers: a response text, or the POST raises.
RpcAnswers == {"//OK[0,7]", "//OK[1,[\"a\"],0,7]", "//EX[0,7]", "raise"}

\* The result of an operation: a value, or an exception with its message.
Value(v) == [raised |-> FALSE, v |-> v]
Exception(msg) == [raised |-> TRUE, v |-> msg]

\* The result once login() gave False.
login_failed(op) ==
    IF op.failure = "Login failed" THEN Exception("Login failed")
    ELSE Value(op.failure)

\* The result once the service answered.
answered(op, answer) ==
    IF ~op.guarded
    THEN (IF answer = "raise" THEN Exception("ConnectionError") ELSE Value(answer))
    ELSE IF answer = "raise" THEN Value(op.failure)
    ELSE IF SubSeq(answer, 1, 4) = "//OK" THEN Value("parsed " \o answer)
    ELSE Value(op.failure)

\* One operation: login(), then the call.
gwt_operation(op, logged_in, env, answer) ==
    LET l == login(logged_in, env)
    IN  IF ~l.ret
        THEN [logged_in |-> l.logged_in, requests |-> l.requests,
              result |-> login_failed(op)]
        ELSE [logged_in |-> l.logged_in,
              requests |-> l.requests \o _make_gwt_call(base_url \o op.service),
              result |-> answered(op, answer)]

LastOp(name, logged_in0, env, result) ==
    [name |-> name, logged_in0 |-> logged_in0, env |-> env, result |-> result]
NoOp == LastOp("", FALSE, NoEnv, Value(""))

LoginIdle ==
    /\ nLoggedIn = FALSE
    /\ nRequests = <<>>
    /\ nOp = LastOp("idle", FALSE, NoEnv, Value(""))

LoginInit ==
    /\ nLoggedIn = FALSE
    /\ nRequests = <<>>
    /\ nOp = NoOp

\* A direct call of login().
Login ==
    \E env \in LoginEnvs :
        LET l == login(nLoggedIn, env) IN
        /\ nLoggedIn' = l.logged_in
        /\ nRequests' = l.requests
        /\ nOp' = LastOp("login", nLoggedIn, IF nLoggedIn THEN NoEnv ELSE env,
                         Value(IF l.ret THEN "True" ELSE "False"))

\* One of the operations that send a GWT-RPC call.
GwtOperation ==
    \E op \in GwtOps, env \in LoginEnvs, answer \in RpcAnswers :
        LET r == gwt_operation(op, nLoggedIn, env, answer) IN
        /\ nLoggedIn' = r.logged_in
        /\ nRequests' = r.requests
        /\ nOp' = LastOp(op.name, nLoggedIn, IF nLoggedIn THEN NoEnv ELSE env,
                         r.result)

LoginNext ==
    \/ Login /\ UNCHANGED loginFrame
    \/ GwtOperation /\ UNCHANGED loginFrame

(***************************************************************************)
(* PhoneAudioBridge (websocket_server.py): run(), _start_gemini_session,   *)
(* the task _receive_from_gemini and the set_mode control message          *)
(***************************************************************************)
\* Bound: the JSON messages sent to the phone in one session.
MaxSent == 4

Modes == {"audio", "text"}

\* A message of _send_json; gemini_connected is the state of
\* self._gemini_connected when it was sent (history).
Json(type, mode, gemini_connected) ==
    [type |-> type, mode |-> mode, gemini_connected |-> gemini_connected]

\* _start_gemini_session up to its wait: the event is cleared, a running
\* task is cancelled, a new client and a new task are made.
start_gemini_session(task) == [connected |-> FALSE, task |-> "connecting"]

\* What follows _start_gemini_session in its caller.
after_start(waiter, mode, connected) ==
    IF waiter = "run" THEN Json("session_ready", mode, connected)
    ELSE Json("mode_changed", mode, connected)

BridgeIdle ==
    /\ bpc = "idle"
    /\ bWaiter = ""
    /\ bMode = "audio"
    /\ bConnected = FALSE
    /\ bTask = "none"
    /\ bSent = <<>>

BridgeInit ==
    /\ bpc = "start"
    /\ bWaiter = ""
    /\ bMode = "audio"
    /\ bConnected = FALSE
    /\ bTask = "none"
    /\ bSent = <<>>

\* run() up to the wait inside _start_gemini_session.
Run ==
    /\ bpc = "start"
    /\ bpc' = "waiting"
    /\ bWaiter' = "run"
    /\ bConnected' = start_gemini_session(bTask).connected
    /\ bTask' = start_gemini_session(bTask).task
    /\ UNCHANGED <<bMode, bSent>>

\* _receive_from_gemini gets the 'connected' event of its client.
GeminiConnected ==
    /\ bTask = "connecting"
    /\ bpc # "ended"
    /\ bConnected' = TRUE
    /\ bTask' = "connected"
    /\ UNCHANGED <<bpc, bWaiter, bMode, bSent>>

\* self.gemini.connect() raises: the task logs the error and ends.
GeminiFails ==
    /\ bTask \in {"connecting", "connected"}
    /\ bTask' = "failed"
    /\ UNCHANGED <<bpc, bWaiter, bMode, bConnected, bSent>>

\* _receive_from_gemini forwards a 'turn_complete' event.
GeminiTurnComplete ==
    /\ bTask = "connected"
    /\ bpc # "ended"
    /\ Len(bSent) < MaxSent
    /\ bSent' = Append(bSent, Json("turn_complete", bMode, bConnected))
    /\ UNCHANGED <<bpc, bWaiter, bMode, bConnected, bTask>>

\* wait_for returns, the event being set: the caller goes on.
WaitReturns ==
    /\ bpc = "waiting"
    /\ bConnected
    /\ bSent' = Append(bSent, after_start(bWaiter, bMode, bConnected))
    /\ bpc' = "receiving"
    /\ UNCHANGED <<bWaiter, bMode, bConnected, bTask>>

\* wait_for raises TimeoutError after 10 s without the event: it is logged
\* and the caller goes on.
WaitTimesOut ==
    /\ bpc = "waiting"
    /\ ~bConnected
    /\ bSent' = Append(bSent, after_start(bWaiter, bMode, bConnected))
    /\ bpc' = "receiving"
    /\ UNCHANGED <<bWaiter, bMode, bConnected, bTask>>

\* _handle_control_message with type 'set_mode', up to the wait.
SetMode ==
    \E new_mode \in Modes :
        /\ bpc = "receiving"
        /\ Len(bSent) < MaxSent
        /\ IF new_mode # bMode
           THEN /\ bMode' = new_mode
                /\ bConnected' = start_gemini_session(bTask).connected
                /\ bTask' = start_gemini_session(bTask).task
                /\ bpc' = "waiting"
                /\ bWaiter' = "set_mode"
           ELSE UNCHANGED <<bMode, bConnected, bTask, bpc, bWaiter>>
        /\ UNCHANGED bSent

\* The phone disconnects or sends end_session: run() ends and cancels the
\* task.
EndSession ==
    /\ bpc = "receiving"
    /\ bpc' = "ended"
    /\ bTask' = IF bTask \in {"connecting", "connected"} THEN "cancelled" ELSE bTask
    /\ UNCHANGED <<bWaiter, bMode, bConnected, bSent>>

BridgeNext ==
    \/ Run /\ UNCHANGED bridgeFrame
    \/ GeminiConnected /\ UNCHANGED bridgeFrame
    \/ GeminiFails /\ UNCHANGED bridgeFrame
    \/ GeminiTurnComplete /\ UNCHANGED bridgeFrame
    \/ WaitReturns /\ UNCHANGED bridgeFrame
    \/ WaitTimesOut /\ UNCHANGED bridgeFrame
    \/ SetMode /\ UNCHANGED bridgeFrame
    \/ EndSession /\ UNCHANGED bridgeFrame
(***************************************************************************)
(* Specifications: one per subsystem; the other subsystems stay idle.      *)
(***************************************************************************)

JoinIdle ==
    /\ jNotesIn = <<>>
    /\ jLessonsIn = <<>>
    /\ jLessons = <<>>
    /\ jSchedule = NoResult
    /\ jpc = "constructed"
    /\ dOpgaverIn = <<>>
    /\ dAssignments = <<>>

AssignIdle ==
    /\ aRoot = [kind |-> "list", items |-> <<>>]
    /\ aArgs = NoArgs
    /\ aListing = NoListing
    /\ aRow = <<>>
    /\ aDetail = NoDetail
    /\ apc = "start"

CacheIdle == CacheInit

ToolIdle ==
    /\ tCalls = <<>>
    /\ tBridge = [registered |-> FALSE, sessions |-> <<>>]
    /\ tResults = <<>>
    /\ tResponses = <<>>
    /\ tNext = 1
    /\ tSent = <<>>
    /\ tReturn = NotReturned
    /\ tpc = "loop"

WireIdle ==
    /\ wRaw = <<>>
    /\ wOut = NotConstructed

StackIdle ==
    /\ sData = <<>>
    /\ sStrings = <<>>
    /\ sPos = 0
    /\ sObjects = <<>>
    /\ sLog = <<>>
    /\ sOp = NoStackOp

InitJoin == ScanInit /\ AssignIdle /\ CacheIdle /\ ToolIdle /\ WireIdle /\ StackIdle /\ ExtractIdle /\ ApiIdle /\ LoginIdle /\ BridgeIdle
InitAssign == AssignInit /\ JoinIdle /\ CacheIdle /\ ToolIdle /\ WireIdle /\ StackIdle /\ ExtractIdle /\ ApiIdle /\ LoginIdle /\ BridgeIdle
InitCache == CacheInit /\ JoinIdle /\ AssignIdle /\ ToolIdle /\ WireIdle /\ StackIdle /\ ExtractIdle /\ ApiIdle /\ LoginIdle /\ BridgeIdle
InitTool == ToolInit /\ JoinIdle /\ AssignIdle /\ CacheIdle /\ WireIdle /\ StackIdle /\ ExtractIdle /\ ApiIdle /\ LoginIdle /\ BridgeIdle
InitWire == WireInit /\ JoinIdle /\ AssignIdle /\ CacheIdle /\ ToolIdle /\ StackIdle /\ ExtractIdle /\ ApiIdle /\ LoginIdle /\ BridgeIdle
InitStack == StackInit /\ JoinIdle /\ AssignIdle /\ CacheIdle /\ ToolIdle /\ WireIdle /\ ExtractIdle /\ ApiIdle /\ LoginIdle /\ BridgeIdle
InitExtract == ExtractInit /\ JoinIdle /\ AssignIdle /\ CacheIdle /\ ToolIdle /\ WireIdle /\ StackIdle /\ ApiIdle /\ LoginIdle /\ BridgeIdle
InitApi == ApiInit /\ JoinIdle /\ AssignIdle /\ CacheIdle /\ ToolIdle /\ WireIdle /\ StackIdle /\ ExtractIdle /\ LoginIdle /\ BridgeIdle
InitLogin == LoginInit /\ JoinIdle /\ AssignIdle /\ CacheIdle /\ ToolIdle /\ WireIdle /\ StackIdle /\ ExtractIdle /\ ApiIdle /\ BridgeIdle
InitBridge == BridgeInit /\ JoinIdle /\ AssignIdle /\ CacheIdle /\ ToolIdle /\ WireIdle /\ StackIdle /\ ExtractIdle /\ ApiIdle /\ LoginIdle

SpecJoin == InitJoin /\ [][JoinNext]_vars

SpecAssign == InitAssign /\ [][AssignNext]_vars

SpecCache == InitCache /\ [][CacheNext]_vars

SpecTool == InitTool /\ [][ToolNext]_vars

SpecWire == InitWire /\ [][WireNext]_vars

SpecStack == InitStack /\ [][StackNext]_vars

SpecExtract == InitExtract /\ [][ExtractNext]_vars

SpecApi == InitApi /\ [][ApiNext]_vars

SpecLogin == InitLogin /\ [][LoginNext]_vars

SpecBridge == InitBridge /\ [][BridgeNext]_vars

(***************************************************************************)
(* Claims about the joiner (checked under SpecJoin).                       *)
(***************************************************************************)

Joined == jpc \in {"parse_schedule_response", "parse_schedule"}

\* The notes _parse_all_notes decodes, read off the reader outcomes.
DecodedNotes ==
    { jNotesIn[i].val : i \in { k \in 1..Len(jNotesIn) :
        /\ ~jNotesIn[k].raised
        /\ \/ jNotesIn[k].val.plain_text \notin {NoneT, <<>>}
           \/ jNotesIn[k].val.html \notin {NoneT, <<>>} } }

HasLektier(n) ==
    \/ n.plain_text # NoneT /\ Contains(n.plain_text, Lektier)
    \/ n.html # NoneT /\ Contains(n.html, Lektier)

\* n has the calendar date of l's start_time and l's class name.
SameDateAndClass(n, l) ==
    /\ Len(n.date) = 5
    /\ Len(l.start_time) = 5
    /\ \A k \in 1..3 : n.date[k] = l.start_time[k]
    /\ n.class_name = l.class_name

MatchingNotes(l) == { n \in DecodedNotes : SameDateAndClass(n, l) }

\* C3: in the output of parse_lessons_direct a lesson has has_homework iff
\* some decoded note of its (date, class name) contains 'Lektier', and
\* has_note iff some decoded note of its (date, class name) does not; a
\* lesson no note matches is as its reader returned it; a lesson whose only
\* matching note is a homework note with 'Lektier' in the plain text has
\* that plain text as homework and has_note = FALSE.
C3_JoinFlags ==
    Joined =>
        \A i \in 1..Len(jLessons) :
            LET l == jLessons[i] IN
            /\ l.has_homework <=> \E n \in MatchingNotes(l) : HasLektier(n)
            /\ l.has_note <=> \E n \in MatchingNotes(l) : ~HasLektier(n)
            /\ MatchingNotes(l) = {} =>
                   \E k \in 1..Len(jLessonsIn) : jLessonsIn[k] = Returned(l)
            /\ \A n \in MatchingNotes(l) :
                   (MatchingNotes(l) = {n} /\ Contains(n.plain_text, Lektier)) =>
                       l.homework = n.plain_text /\ ~l.has_note

\* C3 witness: a lesson joined with a homework note while a note of another
\* class or date, or without a date, was decoded too.
C3_Witness ==
    /\ Joined
    /\ \E i \in 1..Len(jLessons) :
           /\ jLessons[i].has_homework
           /\ ~jLessons[i].has_note
           /\ jLessons[i].homework = TxtHomework
    /\ \E n \in DecodedNotes : \A i \in 1..Len(jLessons) : ~SameDateAndClass(n, jLessons[i])

HasContent(l) == l.subject # <<>> \/ l.rooms # <<>> \/ l.teachers # <<>>

C5_FlagsImplyText ==
    Joined =>
        \A i \in 1..Len(jLessons) :
            /\ jLessons[i].has_homework => jLessons[i].homework # <<>>
            /\ jLessons[i].has_note => jLessons[i].note # <<>>

\* C6 as stated: in the sorted list parse_schedule returns, no two adjacent
\* lessons of the same (date, subject) both have has_homework.
C6_DisplayDedup ==
    (jpc = "parse_schedule" /\ ~jSchedule.raised) =>
        \A k \in 1..(Len(jSchedule.lessons) - 1) :
            LET a == jSchedule.lessons[k]
                b == jSchedule.lessons[k + 1]
            IN (a.date = b.date /\ a.subject = b.subject) =>
                   ~(a.has_homework /\ b.has_homework)

(***************************************************************************)
(* Claims about the assignments (checked under SpecAssign).                *)
(***************************************************************************)

\* C1: the row_index of an entry of the list get_assignments returned (with
\* any filter, the default include_submitted = false included) names the
\* same assignment for get_assignment_details, the server's data unchanged.
C1_RowIndexRoundTrip ==
    \A i \in 1..Len(aListing.assignments) :
        LET a == aListing.assignments[i] IN
        aRow = a.row_index =>
            /\ ~aDetail.error
            /\ aDetail.assignment[1].container_id = a.container_id
            /\ aDetail.assignment[1].subject = a.subject
            /\ aDetail.assignment[1].assignment_title = a.title

ContainerIds(s) == [k \in 1..Len(s) |-> s[k].container_id]

\* An Aflevering the student has not handed in, whose status is AABEN
\* (ordinal 0) or absent and which has no evaluation date.
IsOpenAflevering(x) ==
    /\ x.is_dict
    /\ x.submitted = FALSE
    /\ x.status \in {<<>>, <<0>>}
    /\ x.bedoemmelse \in {<<>>, <<NoneDT>>}

\* Its OpgaveElev was decoded and has a non-empty subject or title.
HasTask(x) ==
    /\ x.opgave_elev # <<>>
    /\ \/ x.opgave_elev[1].subject \notin {NoneT, <<>>}
       \/ x.opgave_elev[1].title \notin {NoneT, <<>>}

DefaultListing == apc = "listed" /\ aArgs = NoArgs /\ aRoot.kind = "list"

\* C2, as stated: with include_submitted = false (and no other filter) the
\* list holds exactly the decoded Aflevering objects that are open, in
\* decoded order.
C2_ExactlyOpen ==
    DefaultListing =>
        ContainerIds(aListing.assignments)
            = ContainerIds(SelectSeq(aRoot.items, IsOpenAflevering))

\* C2, amended: with include_submitted = false (and no other filter) the
\* list holds exactly the decoded Aflevering objects that are open and
\* carry a decoded OpgaveElev with a non-empty subject or title, in decoded
\* order, each with submitted = false.
C2_ExactlyOpenWithTask ==
    DefaultListing =>
        /\ ~aListing.raised
        /\ ContainerIds(aListing.assignments)
            = ContainerIds(SelectSeq(aRoot.items,
                    LAMBDA x : IsOpenAflevering(x) /\ HasTask(x)))
        /\ \A i \in 1..Len(aListing.assignments) :
            ~aListing.assignments[i].submitted

\* An evaluated assignment and an open one were decoded, in this order,
\* and the list holds the open one alone, as row 0.
C2_Witness ==
    /\ DefaultListing
    /\ Len(aRoot.items) = 2
    /\ aRoot.items[1].is_dict
    /\ ~aRoot.items[1].submitted
    /\ aRoot.items[1].bedoemmelse \notin {<<>>, <<NoneDT>>}
    /\ Len(aListing.assignments) = 1
    /\ aListing.assignments[1].container_id = 11
    /\ aListing.assignments[1].row_index = <<"0">>

(***************************************************************************)
(* Claims about SimpleCache (checked under SpecCache).                     *)
(***************************************************************************)

\* The last call was a get on a key that was set before; its age then.
GetAfterSet == cOp.op = "get" /\ cLastSet[cOp.key] # Missing
AgeAtGet == cOp.at - cLastSet[cOp.key][1].timestamp

\* C7, as stated: after set(k, v) at time t, a get(k, ttl) later than
\* t + ttl misses and leaves no entry, however many gets came in between;
\* a get at age <= ttl returns v; only a set restarts the age.
C7_Ttl ==
    GetAfterSet =>
        /\ AgeAtGet > cOp.arg =>
            cOp.result = Miss /\ cCache[cOp.key] = Missing
        /\ AgeAtGet <= cOp.arg =>
            cOp.result = Hit(cLastSet[cOp.key][1].data)

\* C7, amended: as above, but a get at age <= ttl returns v only when the
\* entry was not deleted since the set (by clear, by invalidate, or by an
\* earlier get on k with a smaller ttl that found it expired); it then
\* leaves the entry with the timestamp of the set.
C7_TtlUnlessRemoved ==
    GetAfterSet =>
        /\ AgeAtGet > cOp.arg =>
            cOp.result = Miss /\ cCache[cOp.key] = Missing
        /\ (AgeAtGet <= cOp.arg /\ ~cRemoved[cOp.key]) =>
            /\ cOp.result = Hit(cLastSet[cOp.key][1].data)
            /\ cCache[cOp.key] = cLastSet[cOp.key]
        /\ (AgeAtGet <= cOp.arg /\ cRemoved[cOp.key]) =>
            cOp.result = Miss /\ cCache[cOp.key] = Missing

\* A get exactly ttl seconds after the set, on an entry still there, hits.
C7_Witness ==
    /\ GetAfterSet
    /\ AgeAtGet = cOp.arg
    /\ ~cRemoved[cOp.key]
    /\ cOp.result = Hit("v2")

(***************************************************************************)
(* Claims about the tool calls (checked under SpecTool).                   *)
(***************************************************************************)

\* The handler's outcome for the i-th call of the batch.
HandlerOutcome(i) == tool_handler(tBridge, tCalls[i].name)

\* The i-th result and the i-th FunctionResponse answer the i-th call.
Answered(i) ==
    /\ tResults[i].name = tCalls[i].name
    /\ tResponses[i].id = tCalls[i].id
    /\ tResponses[i].name = tCalls[i].name
    /\ HandlerOutcome(i).raised =>
        /\ tResults[i].success = FALSE
        /\ tResults[i].error = ToStr(HandlerOutcome(i).val)
        /\ tResponses[i].response.key = "error"
    /\ ~HandlerOutcome(i).raised =>
        /\ tResults[i].success = TRUE
        /\ tResults[i].result = HandlerOutcome(i).val
        /\ tResponses[i].response.key = "result"

\* C8: a handler that raises ('tool not found' included) never makes
\* _handle_tool_call raise: the call gets {success: false, error} and a
\* FunctionResponse with its id, the rest of the batch still runs in order,
\* and the batch yields one result and one FunctionResponse per call.
C8_ErrorsCaptured ==
    /\ Len(tResults) = tNext - 1
    /\ Len(tResponses) = tNext - 1
    /\ \A i \in 1..(tNext - 1) : Answered(i)
    /\ tpc \in {"returned", "raised"} => tNext = Len(tCalls) + 1
    /\ tpc = "returned" =>
        /\ tReturn = [type |-> "tool_calls", data |-> tResults]
        /\ tSent = <<tResponses>>

\* A batch whose first call raised 'not found' and whose last call
\* succeeded has returned.
C8_Witness ==
    /\ tpc = "returned"
    /\ Len(tCalls) = 3
    /\ HandlerOutcome(1).raised
    /\ tCalls[1].name = ToolUnknown
    /\ tReturn.data[1].success = FALSE
    /\ tReturn.data[3].success = TRUE
    /\ Len(tSent[1]) = 3

(***************************************************************************)
(* Claims about the wire parser (checked under SpecWire).                  *)
(***************************************************************************)

Content == Strip(wRaw)
BeginsOK == StartsWith(Content, OKPrefix)
BeginsEX == StartsWith(Content, EXPrefix)

\* C9: a response text that begins with neither //OK nor //EX (a
\* well-formed JSON array of length >= 3 included) makes the construction
\* fail, and no stack or string table comes out of it.
C9_OnlyOKAccepted ==
    (wOut.status # "none" /\ ~BeginsOK /\ ~BeginsEX) =>
        /\ wOut.status = "raised"
        /\ wOut.strings = <<>>
        /\ wOut.data = <<>>

\* The JSON after the //OK prefix.
AfterOK == json_loads(From(Content, 4))

\* It is an array of length >= 3 whose third-from-last element is an array
\* of strings.
WellFormedEnvelope ==
    /\ AfterOK.ok
    /\ AfterOK.val.t = "list"
    /\ Len(AfterOK.val.items) >= 3
    /\ LET table == AfterOK.val.items[Len(AfterOK.val.items) - 2] IN
        /\ table.t = "list"
        /\ \A i \in 1..Len(table.items) : table.items[i].t = "str"

\* C10: for a text that begins with //OK the construction succeeds only if
\* the JSON after the prefix is an array of length >= 3 whose element -3
\* is an array of strings, and fails in every other case.
C10_OnlyStringTables ==
    (wOut.status # "none" /\ BeginsOK) =>
        (wOut.status = "constructed" <=> WellFormedEnvelope)

(***************************************************************************)
(* Claims about the stack reader.                                          *)
(***************************************************************************)

\* C11: after a public decode operation has returned, the stack position is
\* within the stack: 0 <= pos <= len(data).
C11_PosInStack ==
    sOp.op \in PublicOps => 0 <= sPos /\ sPos <= Len(sData)

\* The shape of a class marker: exactly one '/', a '.' before it and only
\* digits after it.
MarkerShape(s) ==
    /\ Cardinality(SlashAt(s)) = 1
    /\ LET i == CHOOSE i \in SlashAt(s) : TRUE IN
        /\ \E j \in 1..(i - 1) : CharAt(s, j) = "."
        /\ i < Len(s)
        /\ AllDigits(SubSeq(s, i + 1, Len(s)))

Registered(s) ==
    \E i \in 1..Len(Deserializers) :
        /\ Len(s) >= Len(Deserializers[i].class_prefix)
        /\ \A j \in 1..Len(Deserializers[i].class_prefix) :
            CharAt(s, j) = CharAt(Deserializers[i].class_prefix, j)

\* The popped value is the index of a string of the table.
IsIndex(b) == b.t = "int" /\ 1 <= b.n /\ b.n <= Len(sStrings)

UnknownMarker(b) ==
    IsIndex(b) /\ MarkerShape(sStrings[b.n]) /\ ~Registered(sStrings[b.n])

\* C12: a _read_object call that pops the marker of a class without a
\* registered reader consumes one stack slot, appends one placeholder
\* {class, unknown} to the object cache and returns it.
C12_UnknownSkipped ==
    \A i \in 1..Len(sLog) :
        UnknownMarker(sLog[i].b) =>
            /\ ~sLog[i].raised
            /\ sLog[i].pos1 = sLog[i].pos0 - 1
            /\ sLog[i].objects1 =
                Append(sLog[i].objects0, ObjUnknown(sStrings[sLog[i].b.n]))
            /\ sLog[i].ret = ObjUnknown(sStrings[sLog[i].b.n])

\* An unknown class was read as an element of a list.
C12_Witness ==
    \E i \in 1..Len(sLog) :
        /\ UnknownMarker(sLog[i].b)
        /\ sLog[i].objects0 # <<>>
        /\ sLog[i].ret.k = "unknown"

ReaderRaised(e) == e.path = "reader raised"

\* C13: when the registered reader called by _read_object raises, the call
\* returns an error placeholder for the class instead of raising, the
\* reserved slot of the object cache holds that placeholder, and the
\* enclosing reader goes on from where the failed reader stopped.
C13_ErrorsContained ==
    \A i \in 1..Len(sLog) :
        ReaderRaised(sLog[i]) =>
            /\ ~sLog[i].raised
            /\ sLog[i].ret.k = "error"
            /\ sLog[i].ret.c = sStrings[IntOf(sLog[i].b)]
            /\ sLog[i].ret.e # ""
            /\ sLog[i].objects1[sLog[i].idx + 1] = sLog[i].ret
            /\ sObjects[sLog[i].idx + 1] = sLog[i].ret
            /\ (i < Len(sLog) /\ sLog[i + 1].depth = sLog[i].depth) =>
                    sLog[i + 1].pos0 = sLog[i].pos1

\* A list of two elements was read whose first element is the placeholder of
\* a failed reader and whose second element was decoded after it.
C13_Witness ==
    /\ sOp.op = "parse_assignments"
    /\ sOp.ret.k = "list"
    /\ Len(sOp.ret.items) = 2
    /\ sOp.ret.items[1].k = "error"
    /\ sOp.ret.items[2] = ObjRaw(SInt(4))
    /\ \E i \in 1..Len(sLog) : ReaderRaised(sLog[i]) /\ sLog[i].depth = 1

\* The cache slot a negative stack value refers to.
SlotOf(b) == -(b.n + 1)

\* C14: whenever _read_object resolves a back-reference to a slot of the
\* object cache, that slot holds an object, not null.
C14_BackReferenceResolved ==
    \A i \in 1..Len(sLog) :
        (/\ sLog[i].b.t = "int"
         /\ sLog[i].b.n < 0
         /\ SlotOf(sLog[i].b) < Len(sLog[i].objects0)) =>
            /\ sLog[i].objects0[SlotOf(sLog[i].b) + 1] # ObjNone
            /\ sLog[i].ret # ObjNone

\* The value a top-level call pops first.
Popped == sData[sOp.pos0]

\* A number that is a whole number: an int, or a float without a fraction.
WholeNumber(v) == v.t = "int" \/ (v.t = "float" /\ v.n % 2 = 0)
NumberOf(v) == IF v.t = "float" THEN v.n \div 2 ELSE v.n

\* C15: _read_string pops once; it returns strings[v - 1] if the popped v is
\* a number with 1 <= v <= |strings| and null for every other v.
C15_ReadString ==
    (sOp.op = "_read_string" /\ sOp.pos0 >= 1) =>
        /\ sPos = sOp.pos0 - 1
        /\ ~sOp.raised
        /\ IF WholeNumber(Popped) /\ 1 <= NumberOf(Popped) /\ NumberOf(Popped) <= Len(sStrings)
           THEN sOp.ret = ObjStr(sStrings[NumberOf(Popped)])
           ELSE sOp.ret = ObjNone

\* C19: a _read_object call that pops a negative integer b returns the
\* object of cache slot -(b+1) if the cache has that slot and null if not;
\* it does not raise, consumes one stack slot and leaves the cache as it is.
C19_BackReference ==
    \A i \in 1..Len(sLog) :
        (sLog[i].b.t = "int" /\ sLog[i].b.n < 0) =>
            /\ ~sLog[i].raised
            /\ sLog[i].pos1 = sLog[i].pos0 - 1
            /\ sLog[i].objects1 = sLog[i].objects0
            /\ sLog[i].ret =
                IF SlotOf(sLog[i].b) < Len(sLog[i].objects0)
                THEN sLog[i].objects0[SlotOf(sLog[i].b) + 1]
                ELSE ObjNone

\* One operation resolved a reference to a decoded object and a reference
\* to a slot the cache does not have.
C19_Witness ==
    /\ \E i \in 1..Len(sLog) :
        /\ sLog[i].b = SInt(-2)
        /\ Len(sLog[i].objects0) = 2
        /\ sLog[i].ret.k = "unknown"
    /\ \E i \in 1..Len(sLog) :
        /\ sLog[i].b = SInt(-5)
        /\ Len(sLog[i].objects0) = 2
        /\ sLog[i].ret = ObjNone

\* C20: a _read_object call that pops the index b of a string without the
\* shape of a class marker returns the integer b; one that pops 0 or an
\* index beyond the string table returns null; both consume one stack slot
\* and leave the cache as it is.
C20_PlainIndex ==
    \A i \in 1..Len(sLog) :
        /\ (IsIndex(sLog[i].b) /\ ~MarkerShape(sStrings[sLog[i].b.n])) =>
            /\ sLog[i].ret = ObjRaw(sLog[i].b)
            /\ sLog[i].pos1 = sLog[i].pos0 - 1
            /\ sLog[i].objects1 = sLog[i].objects0
        /\ (sLog[i].b.t = "int" /\ (sLog[i].b.n = 0 \/ sLog[i].b.n > Len(sStrings))) =>
            /\ sLog[i].ret = ObjNone
            /\ sLog[i].pos1 = sLog[i].pos0 - 1
            /\ sLog[i].objects1 = sLog[i].objects0

\* The registered classes whose name the string starts with.
RegisteredPrefixes(s) ==
    {i \in 1..Len(Deserializers) :
        /\ Len(s) >= Len(Deserializers[i].class_prefix)
        /\ \A j \in 1..Len(Deserializers[i].class_prefix) :
            CharAt(s, j) = CharAt(Deserializers[i].class_prefix, j)}

\* C21: a _read_object call that pops a class marker runs the reader of the
\* longest registered name that is a prefix of the marker; when no name is,
\* it returns the placeholder of an unknown class.
C21_LongestPrefix ==
    \A i \in 1..Len(sLog) :
        (IsIndex(sLog[i].b) /\ MarkerShape(sStrings[sLog[i].b.n])) =>
            LET s == sStrings[sLog[i].b.n]
                P == RegisteredPrefixes(s)
            IN IF P = {}
               THEN sLog[i].func = "" /\ sLog[i].ret = ObjUnknown(s)
               ELSE \E p \in P :
                    /\ \A q \in P : Len(Deserializers[q].class_prefix)
                                        <= Len(Deserializers[p].class_prefix)
                    /\ sLog[i].func = Deserializers[p].func

\* The marker of a room, which starts with the name of the lesson class as
\* well, was read by the reader of rooms.
C21_Witness ==
    \E i \in 1..Len(sLog) :
        /\ sLog[i].b = SInt(6)
        /\ Cardinality(RegisteredPrefixes(sStrings[6])) = 2
        /\ sLog[i].func = "_deserialize_lokaler"
        /\ sLog[i].ret.c = "Lokaler"

Dispatched(e) == e.path \in {"reader", "reader raised"}

\* C22: a _read_object call that runs a registered reader has the cache
\* length at its start as slot; readers that start earlier have lower slots;
\* the cache does not shrink; at the return the slot holds the returned
\* object.
C22_SlotsReserved ==
    \A i \in 1..Len(sLog) :
        /\ Len(sLog[i].objects1) >= Len(sLog[i].objects0)
        /\ Dispatched(sLog[i]) =>
            /\ sLog[i].idx = Len(sLog[i].objects0)
            /\ Len(sLog[i].objects1) > sLog[i].idx
            /\ sLog[i].objects1[sLog[i].idx + 1] = sLog[i].ret
            /\ \A j \in 1..Len(sLog) :
                (Dispatched(sLog[j]) /\ sLog[j].pos0 < sLog[i].pos0) =>
                    sLog[i].idx < sLog[j].idx

\* A list (slot 0) was read whose elements are a list (slot 1) and an
\* Integer (slot 2).
C22_Witness ==
    /\ Len(sObjects) = 3
    /\ \E i, j, k \in 1..Len(sLog) :
        /\ Dispatched(sLog[i]) /\ sLog[i].depth = 0 /\ sLog[i].idx = 0
        /\ Dispatched(sLog[j]) /\ sLog[j].depth = 1 /\ sLog[j].idx = 1
        /\ Dispatched(sLog[k]) /\ sLog[k].depth = 1 /\ sLog[k].idx = 2
        /\ j < k /\ k < i

IsUDateMarker(b) ==
    /\ IsIndex(b)
    /\ Len(sStrings[b.n]) > 31
    /\ SubSeq(sStrings[b.n], 1, 32) = "dk.uddata.gwt.comm.shared.UDate/"

\* C23: a _read_object call that pops an UDate marker above seven more
\* slots consumes these seven and returns a date-time or null.
C23_UDate ==
    \A i \in 1..Len(sLog) :
        (IsUDateMarker(sLog[i].b) /\ sLog[i].pos0 >= 8) =>
            /\ ~sLog[i].raised
            /\ sLog[i].pos1 = sLog[i].pos0 - 8
            /\ sLog[i].ret.k \in {"datetime", "None"}

IsNoteMarker(b) ==
    /\ IsIndex(b)
    /\ Len(sStrings[b.n]) > 37
    /\ SubSeq(sStrings[b.n], 1, 38) = "dk.uddata.model.skemanoter.SkemaNote2/"

\* The string a field holds that is an integer.
FieldString(v) == IF IsIndex(v) THEN ObjStr(sStrings[v.n]) ELSE ObjNone

\* C24: the note reader returns the first field as id, the second as class
\* name, the fifth as plain text, the sixth as html and the UDate as date.
\* (The dict holds id, class_name, html, plain_text, date in this order.)
C24_NoteFields ==
    \A i \in 1..Len(sLog) :
        (/\ IsNoteMarker(sLog[i].b)
         /\ sLog[i].path = "reader"
         /\ \A k \in {1, 2, 5, 6} : sData[sLog[i].pos0 - k].t = "int") =>
            /\ sLog[i].ret.items[1] = ObjRaw(sData[sLog[i].pos0 - 1])
            /\ sLog[i].ret.items[2] = FieldString(sData[sLog[i].pos0 - 2])
            /\ sLog[i].ret.items[4] = FieldString(sData[sLog[i].pos0 - 5])
            /\ sLog[i].ret.items[3] = FieldString(sData[sLog[i].pos0 - 6])
            /\ sLog[i].ret.items[5].k \in {"datetime", "None"}

\* C27: parse_lessons returns what it returns on a fresh instance of the
\* same response, whatever public operations ran on the instance before.
C27_Independent ==
    (sOp.op = "parse_lessons" /\ sOp.public) =>
        sOp.ret = parse_lessons(Len(sData), <<>>, sData, sStrings).val

(***************************************************************************)
(* Claims about the marker scanners.                                       *)
(***************************************************************************)

WithoutRaised(outs) == SelectSeq(outs, LAMBDA o : ~o.raised)

\* C16: a marker position whose reader raises is skipped and nothing else:
\* the scanners return what they return for the same stack without the
\* failing positions.
C16_FailuresSkipped ==
    /\ Joined =>
        jLessons = parse_lessons_direct(WithoutRaised(jNotesIn),
                                        WithoutRaised(jLessonsIn))
    /\ jpc = "parse_assignments_direct" =>
        dAssignments = parse_assignments_direct(WithoutRaised(dOpgaverIn))

\* The reader raised at the first note position and at the first lesson
\* position; the lesson of the second position came back with the homework
\* of the second note.
C16_Witness ==
    /\ Joined
    /\ Len(jNotesIn) = 2 /\ jNotesIn[1].raised /\ ~jNotesIn[2].raised
    /\ Len(jLessonsIn) = 2 /\ jLessonsIn[1].raised /\ ~jLessonsIn[2].raised
    /\ Len(jLessons) = 1
    /\ jLessons[1].lesson_id = jLessonsIn[2].val.lesson_id
    /\ jLessons[1].has_homework

\* C17: when there are marker positions and the reader raises at every one
\* of them, the caller gets an error, not an empty list.
C17_FailureSurfaced ==
    (/\ Joined
     /\ jLessonsIn # <<>>
     /\ \A i \in 1..Len(jLessonsIn) : jLessonsIn[i].raised) =>
        /\ jpc = "parse_schedule"
        /\ jSchedule.raised

\* C18: no two returned lessons have the same (start_time, subject,
\* class_name), no two joined notes the same (date, class_name, plain_text),
\* no two returned assignments the same (subject, title).
C18_NoDuplicates ==
    /\ Joined =>
        /\ \A i, j \in 1..Len(jLessons) :
            (/\ jLessons[i].start_time = jLessons[j].start_time
             /\ jLessons[i].subject = jLessons[j].subject
             /\ jLessons[i].class_name = jLessons[j].class_name) => i = j
        /\ LET notes == _parse_all_notes(jNotesIn) IN
            \A i, j \in 1..Len(notes) :
                (/\ notes[i].date = notes[j].date
                 /\ notes[i].class_name = notes[j].class_name
                 /\ notes[i].plain_text = notes[j].plain_text) => i = j
    /\ jpc = "parse_assignments_direct" =>
        \A i, j \in 1..Len(dAssignments) :
            (/\ dAssignments[i].subject = dAssignments[j].subject
             /\ dAssignments[i].title = dAssignments[j].title) => i = j


\* The marker positions whose Lesson reader completed with a subject, a
\* room or a teacher.
CompletedWithContent ==
    SelectSeq(jLessonsIn, LAMBDA o : ~o.raised /\ HasContent(o.val))

\* C26: joining notes never removes a lesson: each marker position whose
\* reader completed with a subject, a room or a teacher gives one lesson of
\* the output of parse_lessons_direct, in marker order, whatever notes were
\* decoded for its key.
C26_NoLessonRemoved ==
    Joined =>
        /\ Len(jLessons) = Len(CompletedWithContent)
        /\ \A i \in 1..Len(jLessons) :
               jLessons[i].lesson_id = CompletedWithContent[i].val.lesson_id

(***************************************************************************)
(* Claims about _extract_lessons                                           *)
(***************************************************************************)
\* C25: in the list _extract_lessons returns, of two adjacent lessons with
\* the same date and subject the later one has neither the homework flag
\* nor the note flag.
C25_LaterUnflagged ==
    xpc = "returned" =>
        \A i \in 1..(Len(xLessons) - 1) :
            (xLessons[i].date = xLessons[i + 1].date
             /\ xLessons[i].subject = xLessons[i + 1].subject)
            => (~xLessons[i + 1].has_homework /\ ~xLessons[i + 1].has_note)

(***************************************************************************)
(* Claims about the cached domain API                                      *)
(***************************************************************************)
\* C28: the cache holds results of successful fetches only: after a call
\* whose fetch failed (get_lesson_details gave an error record, get_homework
\* failed and gave an empty list) the cache has no entry for the call's key.
C28_OnlySuccessfulStored ==
    (pCall.fetched /\ pCall.fetch.failed) => pCache[pCall.key] = Missing

(***************************************************************************)
(* Claims about login and the GWT-RPC operations                           *)
(***************************************************************************)
RpcSent == \E i \in 1..Len(nRequests) : nRequests[i].kind = "RPC"
CredentialsSent == \E i \in 1..Len(nRequests) : nRequests[i].kind = "POST credentials"

\* The credential POST of the last operation ended on a URL with 'skema' or
\* 'forside' in it.
LandedInside ==
    /\ nOp.env.instnr \notin {"", "None", "raise"}
    /\ nOp.env.first = "ok"
    /\ nOp.env.url # "raise"
    /\ \/ InStr("skema", nOp.env.url)
       \/ InStr("forside", nOp.env.url)

FailureValue(name) ==
    IF name \in {"get_lesson_files", "get_assignment_files"} THEN Value("[]")
    ELSE IF name \in {"get_file_download_url", "get_note_for_skema"} THEN Value("None")
    ELSE Exception("Login failed")

\* C29: an operation sends its RPC only with logged_in true; logged_in
\* turns true only in an operation whose credential POST ended on a URL
\* holding 'skema' or 'forside'; an operation begun with logged_in true
\* sends no login request; an operation whose login fails sends no RPC and
\* gives its failure value.
C29_NoRpcBeforeLogin ==
    /\ RpcSent => nLoggedIn
    /\ (nLoggedIn /\ ~nOp.logged_in0) => (CredentialsSent /\ LandedInside)
    /\ nOp.logged_in0 =>
           /\ nLoggedIn
           /\ \A i \in 1..Len(nRequests) : nRequests[i].kind = "RPC"
    /\ (~nLoggedIn /\ nOp.name \notin {"", "idle", "login"}) =>
           /\ ~RpcSent
           /\ nOp.result = FailureValue(nOp.name)

\* The credential POST ended on the login page again: the operation gave
\* its failure value and sent no RPC.
C29_Witness ==
    /\ nOp.name = "get_assignments_raw"
    /\ ~nLoggedIn
    /\ CredentialsSent
    /\ ~RpcSent
    /\ nOp.result = Exception("Login failed")

(***************************************************************************)
(* Claims about PhoneAudioBridge                                           *)
(***************************************************************************)
\* C30: 'session_ready' and 'mode_changed' are sent only after the current
\* Gemini session delivered its 'connected' event; when Gemini does not
\* connect within the wait, neither is sent.
C30_ReadyAfterConnected ==
    \A i \in 1..Len(bSent) :
        bSent[i].type \in {"session_ready", "mode_changed"}
            => bSent[i].gemini_connected
====
